---- MODULE Spec2Model ----
(***************************************************************************)
(* Model of the "micro" server: the mind-map layout (generateMindMap and   *)
(* the GET /data handler), the topic sequencer (getTopicInfo and           *)
(* getNextTopic), the quiz script embedded in the Learn page, and single   *)
(* calls of the layout functions and of the exported storage and LLM       *)
(* entry points.                                                           *)
(*                                                                         *)
(* JavaScript values are tagged tuples: <<"number", n>>, <<"string", s>>   *)
(* with s a sequence of one-character strings, <<"boolean", b>>,           *)
(* <<"null">>, <<"undefined">>, <<"NaN">>, <<"object", record>> and        *)
(* <<"array", sequence>>.                                                  *)
(***************************************************************************)
EXTENDS Integers, Sequences, FiniteSets, TLC

VARIABLES
    \* ---- storage rows read by GET /data, and the page it rendered
    level1,        \* rows of labels with level = 1
    level2,        \* rows of labels with level = 2
    stacks,        \* rows of the stacks / topics table
    page,          \* what GET /data rendered last (NoPage before)
    \* ---- storage read by the topic sequencer, and its last result
    labels,        \* rows of the labels table
    topics,        \* rows of the topics table, in the order storage returns them
    nextResult,    \* what getNextTopic returned last
    \* ---- the quiz script of the Learn page
    questions,            \* the questions array embedded in the page
    nextTopicName,        \* nextTopicName embedded in the page
    nextTopicId,          \* nextTopicId embedded in the page
    currentQuestionIndex,
    correctAnswers,
    answeredQuestions,
    skippedQuestions,
    questionAnswered,
    checked,              \* per question: the checked radio (0 = none)
    disabled,             \* per question: the radios with disabled = true
    submitBtn,            \* [disabled, text] of #learn-submit-btn
    banner,               \* "hidden", "correct" or "incorrect"
    screen,               \* "questions", "congratulations" or "left"
    summary,              \* what showCongratulations displayed
    lastEvent,            \* the event handled last (history)
    submits,              \* per question: the Submit clicks made with a
                          \* correct option checked (history)
    \* ---- one call of a function or of an exported entry point
    call                  \* the call made last: its name, arguments and value

mapVars  == <<level1, level2, stacks, page>>
nextVars == <<labels, topics, nextResult>>
quizVars == <<questions, nextTopicName, nextTopicId, currentQuestionIndex,
              correctAnswers, answeredQuestions, skippedQuestions,
              questionAnswered, checked, disabled, submitBtn, banner, screen,
              summary, lastEvent, submits>>
callVars == <<call>>
vars == <<mapVars, nextVars, quizVars, callVars>>

-----------------------------------------------------------------------------
(* JavaScript values and the built-ins the code uses.                      *)

Undefined == <<"undefined">>
Null      == <<"null">>
NaN       == <<"NaN">>
Num(n)    == <<"number", n>>
Str(s)    == <<"string", s>>
Bool(b)   == <<"boolean", b>>
Obj(r)    == <<"object", r>>
Arr(s)    == <<"array", s>>
EmptyStr  == Str(<<>>)

IsNullish(v) == v[1] \in {"null", "undefined"}

\* ToBoolean: what `||`, `!x` and `if (x)` test.
Truthy(v) ==
    CASE v[1] = "number"  -> v[2] # 0
      [] v[1] = "string"  -> v[2] # <<>>
      [] v[1] = "boolean" -> v[2]
      [] v[1] = "object"  -> TRUE
      [] v[1] = "array"   -> TRUE
      [] OTHER            -> FALSE

\* a || b
Or(a, b) == IF Truthy(a) THEN a ELSE b

\* a === b: same type and same value; NaN equals nothing.
StrictEq(a, b) == a[1] # "NaN" /\ a[1] = b[1] /\ a = b

Digits == <<"0", "1", "2", "3", "4", "5", "6", "7", "8", "9">>
IsDigit(c) == \E d \in 1..10 : Digits[d] = c
DigitValue(c) == (CHOOSE d \in 1..10 : Digits[d] = c) - 1

RECURSIVE NumToString(_)
NumToString(n) ==
    IF n < 10 THEN <<Digits[n + 1]>>
    ELSE NumToString(n \div 10) \o <<Digits[(n % 10) + 1]>>

\* String(v), v.toString() and `${v}` (the model holds no negative number).
StringOf(v) ==
    CASE v[1] = "number"    -> NumToString(v[2])
      [] v[1] = "string"    -> v[2]
      [] v[1] = "boolean"   -> IF v[2] THEN <<"t", "r", "u", "e">>
                                       ELSE <<"f", "a", "l", "s", "e">>
      [] v[1] = "null"      -> <<"n", "u", "l", "l">>
      [] v[1] = "undefined" -> <<"u", "n", "d", "e", "f", "i", "n", "e", "d">>
      [] OTHER              -> <<"N", "a", "N">>

RECURSIVE SkipSpaces(_)
SkipSpaces(s) == IF s # <<>> /\ Head(s) = " " THEN SkipSpaces(Tail(s)) ELSE s

RECURSIVE DigitPrefixValue(_, _)
DigitPrefixValue(s, acc) ==
    IF s # <<>> /\ IsDigit(Head(s))
    THEN DigitPrefixValue(Tail(s), acc * 10 + DigitValue(Head(s)))
    ELSE acc

\* parseInt(v): the string form of v, leading blanks skipped, then the longest
\* prefix of decimal digits; NaN when there is none.  (The alphabet of the
\* model holds no sign and no "x", so signs and the 0x prefix do not arise.)
ParseInt(v) ==
    LET s == SkipSpaces(StringOf(v))
    IN  IF s # <<>> /\ IsDigit(Head(s)) THEN Num(DigitPrefixValue(s, 0)) ELSE NaN

\* The alphabet of the strings of the model: lower-case form, collation weight
\* (localeCompare: blank, then digits, then letters) and UTF-16 code unit
\* (the relational operators on strings).
LowerChar(c) ==
    CASE c = "A" -> "a" [] c = "B" -> "b" [] c = "C" -> "c" [] OTHER -> c

CollationWeight(c) ==
    CASE c = " " -> 0
      [] IsDigit(c) -> 1 + DigitValue(c)
      [] c = "a" -> 11 [] c = "A" -> 11
      [] c = "b" -> 12 [] c = "B" -> 12
      [] c = "c" -> 13 [] c = "C" -> 13
      [] OTHER -> 20

CodeUnit(c) ==
    CASE c = " " -> 32
      [] IsDigit(c) -> 48 + DigitValue(c)
      [] c = "A" -> 65 [] c = "B" -> 66 [] c = "C" -> 67
      [] c = "a" -> 97 [] c = "b" -> 98 [] c = "c" -> 99
      [] OTHER -> 120

RECURSIVE ToLowerCase(_)
ToLowerCase(s) ==
    IF s = <<>> THEN <<>> ELSE <<LowerChar(Head(s))>> \o ToLowerCase(Tail(s))

\* a.localeCompare(b) on lower-cased strings: -1, 0 or 1, character by
\* character by collation weight, a proper prefix first.
RECURSIVE LocaleCompare(_, _)
LocaleCompare(a, b) ==
    IF a = <<>> THEN (IF b = <<>> THEN 0 ELSE -1)
    ELSE IF b = <<>> THEN 1
    ELSE IF CollationWeight(Head(a)) < CollationWeight(Head(b)) THEN -1
    ELSE IF CollationWeight(Head(a)) > CollationWeight(Head(b)) THEN 1
    ELSE LocaleCompare(Tail(a), Tail(b))

\* a > b on two strings: by code units.
RECURSIVE StringGreater(_, _)
StringGreater(a, b) ==
    IF a = <<>> THEN FALSE
    ELSE IF b = <<>> THEN TRUE
    ELSE IF CodeUnit(Head(a)) # CodeUnit(Head(b)) THEN CodeUnit(Head(a)) > CodeUnit(Head(b))
    ELSE StringGreater(Tail(a), Tail(b))

\* The comparators of the code compare a chain of keys with localeCompare and
\* return the first result that is not 0: keysA and keysB are the two chains.
RECURSIVE CompareKeys(_, _)
CompareKeys(keysA, keysB) ==
    IF keysA = <<>> THEN 0
    ELSE IF LocaleCompare(Head(keysA), Head(keysB)) # 0
         THEN LocaleCompare(Head(keysA), Head(keysB))
         ELSE CompareKeys(Tail(keysA), Tail(keysB))

\* Array.prototype.sort with such a comparator, on a sequence of
\* [keys, row]: ordered by the comparator and stable (an element goes after
\* every element that does not compare greater).
RECURSIVE InsertSorted(_, _)
\* A sort that is not stable: an element goes before the elements it
\* compares equal to.
InsertBeforeEqual(x, s) ==
    IF s = <<>> THEN <<x>>
    ELSE IF CompareKeys(x.keys, Head(s).keys) <= 0 THEN <<x>> \o s
    ELSE <<Head(s)>> \o InsertSorted(x, Tail(s))

InsertSorted(x, s) ==
    IF s = <<>> THEN <<x>>
    ELSE IF CompareKeys(x.keys, Head(s).keys) < 0 THEN <<x>> \o s
    ELSE <<Head(s)>> \o InsertSorted(x, Tail(s))

RECURSIVE StableSort(_)
StableSort(s) ==
    IF s = <<>> THEN <<>>
    ELSE InsertSorted(s[Len(s)], StableSort(SubSeq(s, 1, Len(s) - 1)))

RECURSIVE Rows(_)
Rows(s) == IF s = <<>> THEN <<>> ELSE <<Head(s).row>> \o Rows(Tail(s))

\* Array.prototype.find / findIndex, as a 1-based index; 0 when nothing matches.
FindIndex(s, P(_)) ==
    IF \E i \in 1..Len(s) : P(s[i])
    THEN CHOOSE i \in 1..Len(s) : P(s[i]) /\ \A j \in 1..(i - 1) : ~P(s[j])
    ELSE 0

\* A Map, held as the sequence of its <<key, value>> entries in insertion
\* order: set replaces the value of a key that is present.
MapIndex(m, k) == FindIndex(m, LAMBDA e : e[1] = k)
MapSet(m, k, v) ==
    IF MapIndex(m, k) # 0 THEN [m EXCEPT ![MapIndex(m, k)] = <<k, v>>]
    ELSE Append(m, <<k, v>>)
MapGet(m, k) == m[MapIndex(m, k)][2]
MapValues(m) == {m[i][2] : i \in 1..Len(m)}
EmptyMap == <<>>

-----------------------------------------------------------------------------
(* generateMindMap (index.js).  A level-1 row is [id, name, item]; a       *)
(* level-2 row adds the six parent alias fields; a stack row is            *)
(* [id, label_id, label, name, item].  Every field holds a JavaScript      *)
(* value; a field the row does not have holds Undefined.                   *)

nodeSpacing == 120

\* (node.item || '').toString().toLowerCase()
ItemKey(node) == ToLowerCase(StringOf(Or(node.item, EmptyStr)))

\* node.parent_node || node.parent_node_id || ... || node.parent_label
ParentNodeValue(node) ==
    Or(Or(Or(Or(Or(node.parent_node, node.parent_node_id), node.parent_id),
             node.parent), node.parent_label_id), node.parent_label)

\* The predicate of sortedLevel1.find in getParentNode, getParentNode1 and
\* the column-2 loop.
MatchesParentNode(n, parentNodeValue) ==
    \/ StrictEq(n.id, parentNodeValue)
    \/ StrictEq(n.id, ParseInt(parentNodeValue))
    \/ StringOf(n.id) = StringOf(parentNodeValue)
    \/ StrictEq(n.name, parentNodeValue)
    \/ StrictEq(n.name, Str(StringOf(parentNodeValue)))

\* getParentNode / getParentNode1: the index in sortedLevel1 of the parent of
\* a level-2 row, 0 for null.
GetParentNode(node, sortedLevel1) ==
    LET parentNodeValue == ParentNodeValue(node)
    IN  IF ~IsNullish(parentNodeValue)
        THEN FindIndex(sortedLevel1, LAMBDA n : MatchesParentNode(n, parentNodeValue))
        ELSE 0

\* parent ? (parent.item || '').toString().toLowerCase() : ''
ItemKeyAt(sorted, idx) == IF idx = 0 THEN <<>> ELSE ItemKey(sorted[idx])

\* sortedLevel1: by the row's item.
Level1Keys(a) == <<ItemKey(a)>>

RECURSIVE Level1WithKeys(_)
Level1WithKeys(rows) ==
    IF rows = <<>> THEN <<>>
    ELSE <<[keys |-> Level1Keys(Head(rows)), row |-> Head(rows)]>>
         \o Level1WithKeys(Tail(rows))

SortedLevel1(l1) == Rows(StableSort(Level1WithKeys(l1)))

\* sortedLevel2: by the parent's item, then by the row's item.
Level2Keys(a, sortedLevel1) ==
    <<ItemKeyAt(sortedLevel1, GetParentNode(a, sortedLevel1)), ItemKey(a)>>

RECURSIVE Level2WithKeys(_, _)
Level2WithKeys(rows, sortedLevel1) ==
    IF rows = <<>> THEN <<>>
    ELSE <<[keys |-> Level2Keys(Head(rows), sortedLevel1), row |-> Head(rows)]>>
         \o Level2WithKeys(Tail(rows), sortedLevel1)

SortedLevel2(l2, sortedLevel1) == Rows(StableSort(Level2WithKeys(l2, sortedLevel1)))

\* stack.label_id || stack.label || stack.name
StackLabel(stack) == Or(Or(stack.label_id, stack.label), stack.name)

\* A stack matched with its level-2 row by name only.
StackBelongsToByName(stack, node2) ==
    StrictEq(StackLabel(stack), node2.name)

\* stackLabel === node2.id || stackLabel === node2.name
StackBelongsTo(stack, node2) ==
    StrictEq(StackLabel(stack), node2.id) \/ StrictEq(StackLabel(stack), node2.name)

\* getParentNode2, and parentNode2 of the column-3 loop: an index in
\* sortedLevel2, 0 for undefined.
GetParentNode2(stack, sortedLevel2) ==
    FindIndex(sortedLevel2, LAMBDA n : StackBelongsTo(stack, n))

\* The keys of the stack comparator with the item of the level-2 parent
\* before the item of the level-1 parent.
StackKeysLevel2First(a, sortedLevel1, sortedLevel2) ==
    LET parent2A == GetParentNode2(a, sortedLevel2)
        parent1A == IF parent2A = 0 THEN 0
                    ELSE GetParentNode(sortedLevel2[parent2A], sortedLevel1)
    IN  <<ItemKeyAt(sortedLevel2, parent2A), ItemKeyAt(sortedLevel1, parent1A),
          ItemKey(a)>>

\* sortedStacks: by the item of the parent's parent (level 1), then by the
\* item of the parent (level 2), then by the row's item.
StackKeys(a, sortedLevel1, sortedLevel2) ==
    LET parent2A == GetParentNode2(a, sortedLevel2)
        parent1A == IF parent2A = 0 THEN 0
                    ELSE GetParentNode(sortedLevel2[parent2A], sortedLevel1)
    IN  <<ItemKeyAt(sortedLevel1, parent1A), ItemKeyAt(sortedLevel2, parent2A),
          ItemKey(a)>>
RECURSIVE StacksWithKeys(_, _, _)
StacksWithKeys(rows, sortedLevel1, sortedLevel2) ==
    IF rows = <<>> THEN <<>>
    ELSE <<[keys |-> StackKeys(Head(rows), sortedLevel1, sortedLevel2),
            row |-> Head(rows)]>>
         \o StacksWithKeys(Tail(rows), sortedLevel1, sortedLevel2)

SortedStacks(st, sortedLevel1, sortedLevel2) ==
    Rows(StableSort(StacksWithKeys(st, sortedLevel1, sortedLevel2)))

\* The element ids: `prefix-${node.id || idx}`, idx the 0-based array index.
ElementId(prefix, v) == <<prefix, StringOf(v)>>
StackId(stack, stackIdx) == ElementId("stack-", Or(stack.id, Num(stackIdx)))
Node2Id(node2, idx2)     == ElementId("node-l2-", Or(node2.id, Num(idx2)))
Node1Id(node1, idx1)     == ElementId("node-l1-", Or(node1.id, Num(idx1)))

\* stackPositions after the first k stacks, and the cursor stackY.
RECURSIVE StackPositions(_, _)
StackPositions(sortedStacks, k) ==
    IF k = 0 THEN EmptyMap
    ELSE MapSet(StackPositions(sortedStacks, k - 1),
                StackId(sortedStacks[k], k - 1), (k - 1) * nodeSpacing)

\* The level-2 loop after k nodes: [positions, stackY].
RECURSIVE Level2Positions(_, _, _)
Level2Positions(sortedLevel2, sortedStacks, k) ==
    IF k = 0
    THEN [positions |-> EmptyMap, stackY |-> Len(sortedStacks) * nodeSpacing]
    ELSE
      LET before == Level2Positions(sortedLevel2, sortedStacks, k - 1)
          node2 == sortedLevel2[k]
          node2Id == Node2Id(node2, k - 1)
          firstStack == FindIndex(sortedStacks, LAMBDA stack : StackBelongsTo(stack, node2))
      IN  IF firstStack # 0
          THEN [positions |->
                  MapSet(before.positions, node2Id,
                         MapGet(StackPositions(sortedStacks, Len(sortedStacks)),
                                StackId(sortedStacks[firstStack], firstStack - 1))),
                stackY |-> before.stackY]
          ELSE [positions |-> MapSet(before.positions, node2Id, before.stackY),
                stackY |-> before.stackY + nodeSpacing]

\* The predicate of sortedLevel2.find in the level-1 loop.
IsChildOfLevel1(node2, node1) ==
    LET parentValue == ParentNodeValue(node2)
    IN  \/ StrictEq(parentValue, node1.id)
        \/ StrictEq(parentValue, node1.name)
        \/ StringOf(parentValue) = StringOf(node1.id)
        \/ StringOf(parentValue) = StringOf(node1.name)

\* The level-1 loop after k nodes: [positions, stackY].
RECURSIVE Level1Positions(_, _, _, _)
Level1Positions(sortedLevel1, sortedLevel2, l2, k) ==
    IF k = 0
    THEN [positions |-> EmptyMap, stackY |-> l2.stackY]
    ELSE
      LET before == Level1Positions(sortedLevel1, sortedLevel2, l2, k - 1)
          node1 == sortedLevel1[k]
          nodeId == Node1Id(node1, k - 1)
          firstLevel2 == FindIndex(sortedLevel2, LAMBDA node2 : IsChildOfLevel1(node2, node1))
      IN  IF firstLevel2 # 0
          THEN [positions |->
                  MapSet(before.positions, nodeId,
                         MapGet(l2.positions,
                                Node2Id(sortedLevel2[firstLevel2], firstLevel2 - 1))),
                stackY |-> before.stackY]
          ELSE [positions |-> MapSet(before.positions, nodeId, before.stackY),
                stackY |-> before.stackY + nodeSpacing]

\* connections.some(c => c.from === from && c.to === to)
HasConnection(connections, from, to) ==
    \E i \in 1..Len(connections) : connections[i].from = from /\ connections[i].to = to

\* connections.push without the guard.
AddConnectionUnguarded(connections, from, to, type) ==
    Append(connections, [from |-> from, to |-> to, type |-> type])

\* The guarded connections.push of the column-2 and column-3 loops.
AddConnection(connections, from, to, type) ==
    IF HasConnection(connections, from, to) THEN connections
    ELSE Append(connections, [from |-> from, to |-> to, type |-> type])

\* connections after the first k nodes of column 2.
RECURSIVE Column2Connections(_, _, _)
Column2Connections(sortedLevel1, sortedLevel2, k) ==
    IF k = 0 THEN <<>>
    ELSE
      LET before == Column2Connections(sortedLevel1, sortedLevel2, k - 1)
          node2 == sortedLevel2[k]
          parentNode1 == GetParentNode(node2, sortedLevel1)
      IN  IF parentNode1 # 0
          THEN AddConnection(before,
                             Node1Id(sortedLevel1[parentNode1], parentNode1 - 1),
                             Node2Id(node2, k - 1), "l1-l2")
          ELSE before

\* connections after column 2 and the first k stacks of column 3.
RECURSIVE Column3Connections(_, _, _, _)
Column3Connections(sortedLevel1, sortedLevel2, sortedStacks, k) ==
    IF k = 0 THEN Column2Connections(sortedLevel1, sortedLevel2, Len(sortedLevel2))
    ELSE
      LET before == Column3Connections(sortedLevel1, sortedLevel2, sortedStacks, k - 1)
          stack == sortedStacks[k]
          parentNode2 == GetParentNode2(stack, sortedLevel2)
      IN  IF parentNode2 # 0
          THEN AddConnection(before,
                             ElementId("node-l2-", sortedLevel2[parentNode2].id),
                             StackId(stack, k - 1), "l2-stack")
          ELSE before

Max(S) == CHOOSE x \in S : \A y \in S : y <= x

\* generateMindMap past its guard: the three columns (element id, style top
\* and row of each node), the connections and min-height of the container.
MindMapContainer(l1, l2, st) ==
      LET sortedLevel1 == SortedLevel1(l1)
          sortedLevel2 == SortedLevel2(l2, sortedLevel1)
          sortedStacks == SortedStacks(st, sortedLevel1, sortedLevel2)
          stackPositions == StackPositions(sortedStacks, Len(sortedStacks))
          level2Loop == Level2Positions(sortedLevel2, sortedStacks, Len(sortedLevel2))
          level1Loop == Level1Positions(sortedLevel1, sortedLevel2, level2Loop,
                                       Len(sortedLevel1))
      IN  [kind |-> "mind-map-container",
           column1 |-> [i \in 1..Len(sortedLevel1) |->
                          [id |-> Node1Id(sortedLevel1[i], i - 1),
                           top |-> MapGet(level1Loop.positions,
                                          Node1Id(sortedLevel1[i], i - 1)),
                           node |-> sortedLevel1[i]]],
           column2 |-> [i \in 1..Len(sortedLevel2) |->
                          [id |-> Node2Id(sortedLevel2[i], i - 1),
                           top |-> MapGet(level2Loop.positions,
                                          Node2Id(sortedLevel2[i], i - 1)),
                           node |-> sortedLevel2[i]]],
           column3 |-> [i \in 1..Len(sortedStacks) |->
                          [id |-> StackId(sortedStacks[i], i - 1),
                           top |-> MapGet(stackPositions,
                                          StackId(sortedStacks[i], i - 1)),
                           node |-> sortedStacks[i]]],
           connections |-> Column3Connections(sortedLevel1, sortedLevel2,
                                              sortedStacks, Len(sortedStacks)),
           maxHeight |-> Max(MapValues(level1Loop.positions)
                             \cup MapValues(level2Loop.positions)
                             \cup MapValues(stackPositions)) + nodeSpacing]


\* generateMindMap with its guard on level2 instead of level1.
GenerateMindMapGuardLevel2(l1, l2, st) ==
    IF l2 = <<>>
    THEN [kind |-> "mind-map-empty"]
    ELSE MindMapContainer(l1, l2, st)

\* generateMindMap(level1, level2, stacks): the root element of the returned
\* markup, by its class.
GenerateMindMap(l1, l2, st) ==
    IF l1 = <<>>
    THEN [kind |-> "mind-map-empty"]
    ELSE MindMapContainer(l1, l2, st)

-----------------------------------------------------------------------------
(* getMindMapData (dbController.js) and the GET /data handler (index.js).  *)

\* getMindMapData: `failed` is the set of storage reads that return an error
\* ("client" stands for getSupabaseClient throwing).
GetMindMapData(failed) ==
    IF "client" \in failed THEN [success |-> FALSE, error |-> "Database connection error"]
    ELSE IF "level1" \in failed THEN [success |-> FALSE, error |-> "Failed to fetch level 1 labels"]
    ELSE IF "level2" \in failed THEN [success |-> FALSE, error |-> "Failed to fetch level 2 labels"]
    ELSE [success |-> TRUE,
          data |-> [level1 |-> level1,
                    level2 |-> level2,
                    stacks |-> IF "stacks" \in failed /\ "topics" \in failed
                               THEN <<>> ELSE stacks]]

\* mindMapHtml of the GET /data handler, with what the storage read returned.
MindMapHtml(mindMapResult) ==
    IF mindMapResult.success
    THEN GenerateMindMap(mindMapResult.data.level1, mindMapResult.data.level2,
                         mindMapResult.data.stacks)
    ELSE [kind |-> "mind-map-error"]

-----------------------------------------------------------------------------
(* The rows the model draws from.                                          *)

\* At most MaxRows rows in all are in storage.
MaxRows == 4

Level1Row(id, name, item) == [id |-> id, name |-> Str(name), item |-> item]

NoAlias ==
    [parent_node |-> Undefined, parent_node_id |-> Undefined, parent_id |-> Undefined,
     parent |-> Undefined, parent_label_id |-> Undefined, parent_label |-> Undefined]

Level2Row(id, name, item, alias) ==
    [id |-> id, name |-> Str(name), item |-> item,
     parent_node |-> alias.parent_node, parent_node_id |-> alias.parent_node_id,
     parent_id |-> alias.parent_id, parent |-> alias.parent,
     parent_label_id |-> alias.parent_label_id, parent_label |-> alias.parent_label]

StackRow(id, label_id, label, item) ==
    [id |-> id, label_id |-> label_id, label |-> label, name |-> Undefined,
     item |-> item]

Level1Pool ==
    { Level1Row(Num(1), <<"a">>, Str(<<"a">>)),
      Level1Row(Num(2), <<"b">>, Str(<<"B">>)),
      Level1Row(Num(0), <<"1">>, Null),
      Level1Row(Num(4), <<"u", "n", "d", "e", "f", "i", "n", "e", "d">>, Str(<<"a">>)),
      Level1Row(Num(5), <<"u", "n", "d", "e", "f", "i", "n", "e", "d">>, Str(<<"b">>)) }

Level2Pool ==
    { Level2Row(Num(1), <<"a">>, Str(<<"a">>), [NoAlias EXCEPT !.parent_id = Num(1)]),
      Level2Row(Num(0), <<"b">>, Str(<<"B">>), [NoAlias EXCEPT !.parent_id = Num(1)]),
      Level2Row(Num(2), <<"b">>, Str(<<"A">>), [NoAlias EXCEPT !.parent = Str(<<"b">>)]),
      Level2Row(Num(2), <<"c">>, Str(<<"b">>), [NoAlias EXCEPT !.parent_node = Str(<<"1">>)]),
      Level2Row(Num(3), <<"c">>, Str(<<"a">>), [NoAlias EXCEPT !.parent_label = Str(<<"0", "1">>)]),
      Level2Row(Num(3), <<"a">>, Null, NoAlias) }

StackPool ==
    { StackRow(Num(1), Num(1), Undefined, Str(<<"b">>)),
      StackRow(Num(2), Num(1), Undefined, Str(<<"A">>)),
      StackRow(Num(0), Num(2), Undefined, Str(<<"a">>)),
      StackRow(Num(2), Null, Str(<<"b">>), Str(<<"a">>)),
      StackRow(Num(3), Num(3), Undefined, Null) }

\* The outcomes of the storage reads of one request.
ReadFailures ==
    { {}, {"client"}, {"level1"}, {"level2"}, {"stacks"}, {"stacks", "topics"},
      {"progress"} }

-----------------------------------------------------------------------------
(* The data page: rows appear in storage, then GET /data renders them.     *)

NoPage == [html |-> [kind |-> "none"], loaded |-> FALSE]

MapInit ==
    /\ level1 = <<>>
    /\ level2 = <<>>
    /\ stacks = <<>>
    /\ page = NoPage

RowCount == Len(level1) + Len(level2) + Len(stacks)

AddLevel1 ==
    /\ page = NoPage
    /\ RowCount < MaxRows
    /\ \E row \in Level1Pool : level1' = Append(level1, row)
    /\ UNCHANGED <<level2, stacks, page, nextVars, quizVars, callVars>>

AddLevel2 ==
    /\ page = NoPage
    /\ RowCount < MaxRows
    /\ \E row \in Level2Pool : level2' = Append(level2, row)
    /\ UNCHANGED <<level1, stacks, page, nextVars, quizVars, callVars>>

AddStack ==
    /\ page = NoPage
    /\ RowCount < MaxRows
    /\ \E row \in StackPool : stacks' = Append(stacks, row)
    /\ UNCHANGED <<level1, level2, page, nextVars, quizVars, callVars>>

\* GET /data: one request, rendered from one read of the storage.
GetData ==
    /\ page = NoPage
    /\ \E failed \in ReadFailures :
         LET mindMapResult == GetMindMapData(failed)
         IN  page' = [html |-> MindMapHtml(mindMapResult),
                      loaded |-> mindMapResult.success]
    /\ UNCHANGED <<level1, level2, stacks, nextVars, quizVars, callVars>>

MapNext == AddLevel1 \/ AddLevel2 \/ AddStack \/ GetData

\* nextResult before any request.  `visited` holds the topic ids of the
\* earlier calls when the call follows the topic the previous call returned.
NoResult ==
    [topicId |-> Undefined, failed |-> {}, visited |-> <<>>,
     result |-> [success |-> FALSE, statusCode |-> 0, error |-> "", data |-> Undefined]]

SequencerInit ==
    /\ labels = <<>>
    /\ topics = <<>>
    /\ nextResult = NoResult

\* No Learn page is open.
NoSummary == [shown |-> FALSE]
QuizIdle ==
    /\ questions = <<>>
    /\ nextTopicName = Null
    /\ nextTopicId = Null
    /\ currentQuestionIndex = 0
    /\ correctAnswers = 0
    /\ answeredQuestions = {}
    /\ skippedQuestions = {}
    /\ questionAnswered = FALSE
    /\ checked = <<>>
    /\ disabled = <<>>
    /\ submitBtn = [disabled |-> TRUE, text |-> "Select an answer"]
    /\ banner = "hidden"
    /\ screen = "questions"
    /\ summary = NoSummary
    /\ lastEvent = [type |-> "load"]
    /\ submits = <<>>

\* No function has been called on its own.
CallIdle == call = [op |-> "none"]

\* The data page alone: no call of the sequencer, no Learn page.
MapSpecInit == MapInit /\ SequencerInit /\ QuizIdle /\ CallIdle
MapSpec == MapSpecInit /\ [][MapNext]_vars

-----------------------------------------------------------------------------
(* Properties of the data page (MapSpec).                                  *)

Rendered == page.html.kind = "mind-map-container"
Min(S) == CHOOSE x \in S : \A y \in S : x <= y

\* The stacks of column 3 whose label reference equals the id or the name of
\* the level-2 node at index j of column 2.
StacksOf(j) ==
    {i \in 1..Len(page.html.column3) :
        StackBelongsTo(page.html.column3[i].node, page.html.column2[j].node)}

\* C1: every level-2 label that has at least one topic is placed at the
\* position of the earliest of its topics, the minimum position among them.
C1_Level2AtFirstTopic ==
    Rendered =>
        \A j \in 1..Len(page.html.column2) :
            StacksOf(j) # {} =>
                page.html.column2[j].top
                    = Min({page.html.column3[i].top : i \in StacksOf(j)})

\* The rows of column 1, in order: sortedLevel1.
Column1Rows == [i \in 1..Len(page.html.column1) |-> page.html.column1[i].node]

\* The level-2 nodes of column 2 whose parent resolves, by the five rules,
\* to the level-1 node at index i of column 1.
ResolvedChildren(i) ==
    {j \in 1..Len(page.html.column2) :
        GetParentNode(page.html.column2[j].node, Column1Rows) = i}

\* C2: every level-1 label that is the resolved parent of at least one
\* level-2 label is placed at the position of the first such level-2 label.
C2_Level1AtFirstChild ==
    Rendered =>
        \A i \in 1..Len(page.html.column1) :
            ResolvedChildren(i) # {} =>
                page.html.column1[i].top
                    = page.html.column2[Min(ResolvedChildren(i))].top

\* C3: the edge list holds no two edges with the same (from, to) pair.
C3_NoDuplicateEdges ==
    Rendered =>
        \A i, j \in 1..Len(page.html.connections) :
            (/\ page.html.connections[i].from = page.html.connections[j].from
             /\ page.html.connections[i].to = page.html.connections[j].to)
            => i = j

\* The nodes of columns 2 and 3 that have a parent: one connections.push is
\* attempted for each.
ConnectionAttempts ==
    Cardinality({j \in 1..Len(page.html.column2) :
                    GetParentNode(page.html.column2[j].node, Column1Rows) # 0})
    + Cardinality({i \in 1..Len(page.html.column3) :
                    \E j \in 1..Len(page.html.column2) : i \in StacksOf(j)})

\* C3, its case: a layout in which the guard refused a push.
C3_Witness == Rendered /\ Len(page.html.connections) < ConnectionAttempts

\* C4: an empty level-1 set gives the empty result whatever the level-2
\* labels and the topics are; a non-empty one gives a container; a failed
\* storage read gives the error result; the three are told apart.
C4_EmptyResult ==
    page # NoPage =>
        /\ (page.html.kind = "mind-map-empty") <=> (page.loaded /\ level1 = <<>>)
        /\ (page.html.kind = "mind-map-container") <=> (page.loaded /\ level1 # <<>>)
        /\ (page.html.kind = "mind-map-error") <=> ~page.loaded

\* C4, its case: the empty result with level-2 labels and topics in storage.
C4_Witness ==
    /\ page.html.kind = "mind-map-empty"
    /\ level2 # <<>>
    /\ stacks # <<>>

-----------------------------------------------------------------------------
(* getTopicInfo and getNextTopic (dbController.js).  A label row is        *)
(* [id, name, item, level] and the six parent alias fields; a topic row is *)
(* [id, topic, label_id, item].  `failed` is the set of storage reads of   *)
(* one call that return an error: "client" (getSupabaseClient throws),     *)
(* "topicJoin", "topic", "label" (getTopicInfo), "allTopics",              *)
(* "parentLabels", "firstTopic" (getNextTopic).                            *)

LabelRow(id, name, item, level, alias) ==
    [id |-> Num(id), name |-> Str(name), item |-> item, level |-> Num(level),
     parent_node |-> alias.parent_node, parent_node_id |-> alias.parent_node_id,
     parent_id |-> alias.parent_id, parent |-> alias.parent,
     parent_label_id |-> alias.parent_label_id, parent_label |-> alias.parent_label]

TopicRow(id, name, label_id, item) ==
    [id |-> Num(id), topic |-> Str(name), label_id |-> Num(label_id), item |-> item]

Failure(statusCode, error) ==
    [success |-> FALSE, statusCode |-> statusCode, error |-> error, data |-> Undefined]
Success(data) ==
    [success |-> TRUE, statusCode |-> 200, error |-> "", data |-> data]

\* .eq('id', id) on the labels table: the index of the row, 0 when none.
LabelIndex(id) == FindIndex(labels, LAMBDA l : l.id = id)

\* A topic row as a query returns it: `labels` is the embedded
\* labels!inner(...) selection, read by the code as an array (labels?.[0]);
\* `label` is what the fallback of getTopicInfo adds.
TopicData(topic, labelsField, labelField) ==
    Obj([id |-> topic.id, topic |-> topic.topic, label_id |-> topic.label_id,
         item |-> topic.item, labels |-> labelsField, label |-> labelField])

\* from('topics').select('*, labels!inner(...)'): the rows that have a label,
\* in storage order, each with its label embedded.
RECURSIVE TopicsWithLabels(_)
TopicsWithLabels(rows) ==
    IF rows = <<>> THEN <<>>
    ELSE LET topic == Head(rows)
         IN  (IF LabelIndex(topic.label_id) = 0 THEN <<>>
              ELSE <<TopicData(topic, Arr(<<Obj(labels[LabelIndex(topic.label_id)])>>),
                               Undefined)>>)
             \o TopicsWithLabels(Tail(rows))

\* v?.[0]
First(v) == IF v[1] = "array" /\ v[2] # <<>> THEN v[2][1] ELSE Undefined

\* The text form of an integer that the storage accepts for .eq('id', text)
\* on the integer id column: decimal digits only; any other text makes the
\* read return an error.
IsIntegerText(v) ==
    v[1] = "number" \/ (v[1] = "string" /\ v[2] # <<>> /\ \A i \in 1..Len(v[2]) : IsDigit(v[2][i]))

getTopicInfo(topicId, failed) ==
    IF "client" \in failed THEN Failure(500, "Database connection error")
    ELSE
    LET topicIdNum == ParseInt(topicId)
        joined == IF topicIdNum = NaN \/ "topicJoin" \in failed THEN 0
                  ELSE FindIndex(TopicsWithLabels(topics),
                                 LAMBDA t : t[2].id = topicIdNum)
        direct == IF IsIntegerText(topicId)
                  THEN FindIndex(topics, LAMBDA t : t.id = ParseInt(topicId))
                  ELSE 0
        labelAt == IF direct = 0 THEN 0 ELSE LabelIndex(topics[direct].label_id)
    IN  IF joined # 0 THEN Success(TopicsWithLabels(topics)[joined])
        ELSE IF "topic" \in failed \/ ~IsIntegerText(topicId)
             THEN Failure(500, "Failed to fetch topic")
        ELSE IF direct = 0 THEN Failure(404, "Topic not found")
        ELSE Success(TopicData(topics[direct], Undefined,
                               IF "label" \in failed \/ labelAt = 0 THEN Null
                               ELSE Obj(labels[labelAt])))

\* t.labels?.[0] || t.label (and, in the other order, for the current topic).
LabelOfTopic(t) == Or(First(t[2].labels), t[2].label)
CurrentLabelOf(t) == Or(t[2].label, First(t[2].labels))

\* The filter of sameParentTopics.
SameParent(t, currentLabel) ==
    /\ Truthy(LabelOfTopic(t))
    /\ LET parentLabelId == ParentNodeValue(LabelOfTopic(t)[2])
           currentParentLabelId == ParentNodeValue(currentLabel[2])
       IN  \/ StrictEq(parentLabelId, currentParentLabelId)
           \/ StringOf(parentLabelId) = StringOf(currentParentLabelId)

RECURSIVE SameParentWithKeys(_, _)
SameParentWithKeys(rows, currentLabel) ==
    IF rows = <<>> THEN <<>>
    ELSE (IF SameParent(Head(rows), currentLabel)
          THEN <<[keys |-> <<ItemKey(LabelOfTopic(Head(rows))[2])>>, row |-> Head(rows)]>>
          ELSE <<>>)
         \o SameParentWithKeys(Tail(rows), currentLabel)

\* sameParentTopics after the filter and the sort by label item.
SameParentTopics(allTopics, currentLabel) ==
    Rows(StableSort(SameParentWithKeys(allTopics, currentLabel)))

\* The forward scan: the index in sameParentTopics of the first topic after
\* currentIndex whose label item is greater than currentItem, 0 when none.
NextSibling(sameParentTopics, currentIndex, currentItem) ==
    IF currentIndex = 0 THEN 0
    ELSE LET later == {i \in (currentIndex + 1)..Len(sameParentTopics) :
                        StringGreater(ItemKey(LabelOfTopic(sameParentTopics[i])[2]),
                                      currentItem)}
         IN  IF later = {} THEN 0 ELSE CHOOSE i \in later : \A j \in later : i <= j

\* from('labels').select('*').eq('level', 2).order('item'): rows with an item
\* first, by item, rows with the same item in storage order; rows without an
\* item last.
RECURSIVE Level2LabelsWithKeys(_, _)
Level2LabelsWithKeys(rows, withItem) ==
    IF rows = <<>> THEN <<>>
    ELSE (IF Head(rows).level = Num(2) /\ (Head(rows).item[1] = "string") = withItem
          THEN <<[keys |-> <<IF withItem THEN Head(rows).item[2] ELSE <<>>>>,
                  row |-> Head(rows)]>>
          ELSE <<>>)
         \o Level2LabelsWithKeys(Tail(rows), withItem)

ParentLabels ==
    Rows(StableSort(Level2LabelsWithKeys(labels, TRUE)))
        \o Rows(Level2LabelsWithKeys(labels, FALSE))

\* from('topics')...eq('label_id', id).order('id').limit(1).maybeSingle():
\* the index in topics of the row, 0 when none.
FirstTopicOf(labelId) ==
    LET mine == {i \in 1..Len(topics) : topics[i].label_id = labelId}
    IN  IF mine = {} \/ LabelIndex(labelId) = 0 THEN 0
        ELSE CHOOSE i \in mine : \A j \in mine : topics[i].id[2] <= topics[j].id[2]

\* The second search of getNextTopic: the first topic of the next parent
\* label, Null when the search finds none or one of its reads fails.
NextParentTopic(currentLabel, failed) ==
    LET currentParentLabelId == ParentNodeValue(currentLabel[2])
        parentLabels == ParentLabels
        currentParentLabel ==
            FindIndex(parentLabels,
                      LAMBDA l : \/ StrictEq(l.id, currentParentLabelId)
                                 \/ StringOf(l.id) = StringOf(currentParentLabelId))
        nextParentLabel ==
            IF currentParentLabel = 0 THEN 0
            ELSE FindIndex(parentLabels,
                           LAMBDA l : StringGreater(ItemKey(l),
                                                    ItemKey(parentLabels[currentParentLabel])))
        firstTopic ==
            IF nextParentLabel = 0 THEN 0 ELSE FirstTopicOf(parentLabels[nextParentLabel].id)
    IN  IF ~Truthy(currentParentLabelId) \/ "parentLabels" \in failed THEN Null
        ELSE IF firstTopic = 0 \/ "firstTopic" \in failed THEN Null
        ELSE TopicData(topics[firstTopic],
                       Arr(<<Obj(labels[LabelIndex(topics[firstTopic].label_id)])>>),
                       Undefined)

getNextTopic(currentTopicId, failed) ==
    IF "client" \in failed THEN Failure(500, "Database connection error")
    ELSE
    LET topicResult == getTopicInfo(currentTopicId, failed)
    IN  IF ~topicResult.success \/ ~Truthy(topicResult.data)
        THEN Failure(404, "Current topic not found")
        ELSE
        LET currentTopic == topicResult.data
            currentLabel == CurrentLabelOf(currentTopic)
        IN  IF ~Truthy(currentLabel) THEN Failure(404, "Label not found for current topic")
            ELSE IF "allTopics" \in failed THEN Failure(500, "Failed to fetch topics")
            ELSE
            LET currentItem == ItemKey(currentLabel[2])
                sameParentTopics == SameParentTopics(TopicsWithLabels(topics), currentLabel)
                currentIndex ==
                    FindIndex(sameParentTopics,
                              LAMBDA t : \/ StrictEq(t[2].id, currentTopic[2].id)
                                         \/ StringOf(t[2].id) = StringOf(currentTopic[2].id))
                nextTopic == NextSibling(sameParentTopics, currentIndex, currentItem)
            IN  IF nextTopic # 0 THEN Success(sameParentTopics[nextTopic])
                ELSE Success(NextParentTopic(currentLabel, failed))

-----------------------------------------------------------------------------
(* The topic sequencer: label and topic rows appear in storage, then one   *)
(* call of getNextTopic reads them.  Ids are primary keys and a topic row  *)
(* references a label row that exists (db/creation.sql).                   *)

\* At most MaxSequencerRows label and topic rows in all are in storage.
MaxSequencerRows == 5

LabelPool ==
    { LabelRow(1, <<"a">>, Str(<<"a">>), 1, NoAlias),
      LabelRow(3, <<"b">>, Str(<<"1">>), 2, [NoAlias EXCEPT !.parent_id = Num(1)]),
      LabelRow(4, <<"c">>, Str(<<"2">>), 2, [NoAlias EXCEPT !.parent_id = Num(1)]),
      LabelRow(5, <<"c">>, Str(<<"2">>), 2, [NoAlias EXCEPT !.parent_id = Num(2)]),
      LabelRow(6, <<"a">>, Str(<<"1">>), 3, [NoAlias EXCEPT !.parent_label_id = Num(3)]),
      LabelRow(2, <<"3">>, Str(<<"b">>), 1, NoAlias),
      LabelRow(7, <<"d">>, Str(<<"2">>), 2, [NoAlias EXCEPT !.parent = Str(<<"3">>)]) }

TopicPool ==
    { TopicRow(10, <<"a">>, 3, Str(<<"A">>)),
      TopicRow(11, <<"b">>, 3, Str(<<"B">>)),
      TopicRow(12, <<"a">>, 4, Str(<<"A">>)),
      TopicRow(13, <<"b">>, 4, Str(<<"B">>)),
      TopicRow(14, <<"a">>, 5, Str(<<"A">>)),
      TopicRow(15, <<"a">>, 6, Str(<<"A">>)),
      TopicRow(16, <<"a">>, 7, Str(<<"A">>)) }

\* topic_id of the request: the id of a row of the pool, an id no row has,
\* and a text that is not a number.
TopicIdPool ==
    {Str(StringOf(row.id)) : row \in TopicPool} \cup {Str(<<"9">>), Str(<<"a">>)}

SequencerReadFailures ==
    { {}, {"client"}, {"topicJoin"}, {"topicJoin", "topic"}, {"topicJoin", "label"},
      {"allTopics"}, {"parentLabels"}, {"firstTopic"} }

SequencerRowCount == Len(labels) + Len(topics)

AddLabel ==
    /\ nextResult = NoResult
    /\ SequencerRowCount < MaxSequencerRows
    /\ \E row \in LabelPool :
         /\ LabelIndex(row.id) = 0
         /\ labels' = Append(labels, row)
    /\ UNCHANGED <<topics, nextResult, mapVars, quizVars, callVars>>

AddTopic ==
    /\ nextResult = NoResult
    /\ SequencerRowCount < MaxSequencerRows
    /\ \E row \in TopicPool :
         /\ \A i \in 1..Len(topics) : topics[i].id # row.id
         /\ LabelIndex(row.label_id) # 0
         /\ topics' = Append(topics, row)
    /\ UNCHANGED <<labels, nextResult, mapVars, quizVars, callVars>>

\* One call getNextTopic(topicId), as the GET /learn handler makes it.
GetNextTopic ==
    /\ nextResult = NoResult
    /\ \E topicId \in TopicIdPool, failed \in SequencerReadFailures :
         nextResult' = [topicId |-> topicId, failed |-> failed, visited |-> <<>>,
                        result |-> getNextTopic(topicId, failed)]
    /\ UNCHANGED <<labels, topics, mapVars, quizVars, callVars>>

\* getNextTopic applied to the topic the previous call returned: Continue on
\* the summary requests /learn?topic_id=<its id>, and the handler calls
\* getNextTopic for it.  A chain of more calls than there are topics has
\* repeated a topic before.
FollowNextTopic ==
    /\ nextResult.result.success
    /\ Truthy(nextResult.result.data)
    /\ Len(nextResult.visited) < Len(topics)
    /\ \E failed \in SequencerReadFailures :
         LET topicId == Str(StringOf(nextResult.result.data[2].id))
         IN  nextResult' = [topicId |-> topicId, failed |-> failed,
                            visited |-> Append(nextResult.visited, nextResult.topicId),
                            result |-> getNextTopic(topicId, failed)]
    /\ UNCHANGED <<labels, topics, mapVars, quizVars, callVars>>

SequencerNext == AddLabel \/ AddTopic \/ GetNextTopic \/ FollowNextTopic

\* The sequencer alone.
SequencerSpecInit == MapInit /\ SequencerInit /\ QuizIdle /\ CallIdle
SequencerSpec == SequencerSpecInit /\ [][SequencerNext]_vars

-----------------------------------------------------------------------------
(* Properties of the topic sequencer (SequencerSpec).                      *)

\* The row of topics the call was made for: its index, 0 when no row has the
\* requested id (or before any call).
RequestedTopic ==
    IF nextResult = NoResult \/ ~IsIntegerText(nextResult.topicId) THEN 0
    ELSE FindIndex(topics, LAMBDA t : t.id = ParseInt(nextResult.topicId))

\* The topics under the label of topics[c] whose own item is later than its
\* item, and among them those with the earliest item.
LaterSiblings(c) ==
    {i \in 1..Len(topics) :
        /\ topics[i].label_id = topics[c].label_id
        /\ LocaleCompare(ItemKey(topics[i]), ItemKey(topics[c])) > 0}
NextSiblings(c) ==
    {i \in LaterSiblings(c) :
        \A j \in LaterSiblings(c) :
            LocaleCompare(ItemKey(topics[i]), ItemKey(topics[j])) <= 0}

\* The data of the result is the topic row topics[i].
Returned(i) ==
    /\ nextResult.result.success
    /\ Truthy(nextResult.result.data)
    /\ nextResult.result.data[2].id = topics[i].id

\* The result is none: a success without a topic.
ReturnedNone == nextResult.result.success /\ nextResult.result.data = Null

\* C5: when every read succeeds and the current topic has a sibling under
\* the same label with a later item, getNextTopic returns the sibling whose
\* item comes next.
C5_NextSiblingByItem ==
    (RequestedTopic # 0 /\ nextResult.failed = {}
        /\ LaterSiblings(RequestedTopic) # {})
    => \E i \in NextSiblings(RequestedTopic) : Returned(i)

\* The label of topics[c], the level-2 labels whose item is later than the
\* item of that label, and among them those with the earliest item.
LabelOf(c) == labels[LabelIndex(topics[c].label_id)]
LaterLevel2(c) ==
    {k \in 1..Len(labels) :
        /\ labels[k].level = Num(2)
        /\ LocaleCompare(ItemKey(labels[k]), ItemKey(LabelOf(c))) > 0}
NextLevel2(c) ==
    {k \in LaterLevel2(c) :
        \A m \in LaterLevel2(c) :
            LocaleCompare(ItemKey(labels[k]), ItemKey(labels[m])) <= 0}
TopicsOf(k) == {i \in 1..Len(topics) : topics[i].label_id = labels[k].id}
LowestId(S) == CHOOSE i \in S : \A j \in S : topics[i].id[2] <= topics[j].id[2]

\* C6: when every read succeeds, the current topic's level-2 label has no
\* further topic and the level-2 label with the next item has topics,
\* getNextTopic returns the topic with the lowest id among them.
C6_FirstTopicOfNextLabel ==
    (RequestedTopic # 0 /\ nextResult.failed = {}
        /\ LabelOf(RequestedTopic).level = Num(2)
        /\ LaterSiblings(RequestedTopic) = {}
        /\ \E k \in NextLevel2(RequestedTopic) : TopicsOf(k) # {})
    => \E k \in NextLevel2(RequestedTopic) :
           TopicsOf(k) # {} /\ Returned(LowestId(TopicsOf(k)))

\* The current topic is the last one: no sibling with a later item and no
\* topic under the level-2 label with the next item.
AtEnd(c) == LaterSiblings(c) = {} /\ \A k \in NextLevel2(c) : TopicsOf(k) = {}

\* The same call returns none when every read succeeds.
NoneWithoutFailure ==
    LET result == getNextTopic(nextResult.topicId, {})
    IN  result.success /\ result.data = Null

\* C7: at the end getNextTopic returns none as a success; it returns none
\* only at the end, and never because a read failed: the same call with
\* every read succeeding returns none too.
C7_NoneOnlyAtEnd ==
    RequestedTopic # 0 =>
        /\ (nextResult.failed = {} /\ LabelOf(RequestedTopic).level = Num(2)
                /\ AtEnd(RequestedTopic)) => ReturnedNone
        /\ ReturnedNone => (AtEnd(RequestedTopic) /\ NoneWithoutFailure)

\* C8: getNextTopic answers 404 when no topic has the requested id, and
\* answers 404 only then or when the label of the topic cannot be read.
C8_NotFoundOnlyWhenAbsent ==
    nextResult # NoResult =>
        /\ (nextResult.failed = {} /\ RequestedTopic = 0)
               => nextResult.result.statusCode = 404
        /\ nextResult.result.statusCode = 404
               => \/ RequestedTopic = 0
                  \/ LabelIndex(topics[RequestedTopic].label_id) = 0
                  \/ "label" \in nextResult.failed

-----------------------------------------------------------------------------
(* generateLearnPage (index.js): the markup of the quiz and the script     *)
(* embedded in it.  A question is [id, answers]; an answer is              *)
(* [id, correct].  Questions and options are numbered from 1 here;         *)
(* currentQuestionIndex is the 0-based index of the script.                *)

\* isCorrect of the answersHtml loop.
RenderedIsCorrect(answer) ==
    \/ StrictEq(answer.correct, Bool(TRUE))
    \/ StrictEq(answer.correct, Str(<<"t", "r", "u", "e">>))
    \/ StrictEq(answer.correct, Num(1))
    \/ StrictEq(answer.correct, Str(<<"1">>))

\* data-correct="${isCorrect}": the dataset.correct of the radio.
DataCorrect(answer) == StringOf(Bool(RenderedIsCorrect(answer)))

\* isCorrect of the script with the dataset.correct value taken as a
\* condition.
IsCorrectTruthy(correctValue) == Truthy(Str(correctValue))

\* isCorrect of the script holding for every dataset.correct value.
IsCorrectAlways(correctValue) == TRUE

\* isCorrect of the script: correctValue === 'true' || correctValue === true,
\* for the dataset.correct of a radio (a string).
IsCorrect(correctValue) == correctValue = <<"t", "r", "u", "e">>

\* dataset.questionId of the question at index q: `${question.id}`.
QuestionId(q) == StringOf(questions[q].id)

\* nextTopicName and nextTopicId of generateLearnPage, for the data of
\* getNextTopic (null, or a topic row).
NextTopicName(nextTopic) ==
    IF nextTopic = Null THEN Null ELSE Or(Or(nextTopic[2].topic, Undefined), Null)
NextTopicId(nextTopic) ==
    IF nextTopic = Null THEN Null ELSE Or(nextTopic[2].id, Null)

\* The current question, numbered from 1.
Current == currentQuestionIndex + 1

\* showQuestion(index).
ShowQuestion(index) ==
    /\ checked' = [checked EXCEPT ![index + 1] = 0]
    /\ disabled' = [disabled EXCEPT ![index + 1] = {}]
    /\ submitBtn' = [disabled |-> TRUE, text |-> "Select an answer"]
    /\ banner' = "hidden"
    /\ questionAnswered' = FALSE

\* showCongratulations(correct, total).
ShowCongratulations(correct, total) ==
    /\ screen' = "congratulations"
    /\ banner' = "hidden"
    /\ summary' = [shown |-> TRUE, correct |-> correct, total |-> total,
                   nextTopic |-> IF Truthy(nextTopicName) /\ Truthy(nextTopicId)
                                 THEN nextTopicName ELSE Null,
                   continueDisabled |-> ~(Truthy(nextTopicName) /\ Truthy(nextTopicId))]

\* disableAllAnswers with isCorrect false, which leaves the other radios as
\* they are.
DisableSelectedOnly(radios, locked, selectedAnswer, isCorrect) ==
    IF isCorrect THEN radios ELSE locked \cup {selectedAnswer}

\* disableAllAnswers(currentQuestion, selectedAnswer, isCorrect): the radios
\* of the question with disabled = true afterwards; `radios` are the radios
\* of the question and `locked` those disabled before.
DisableAllAnswers(radios, locked, selectedAnswer, isCorrect) ==
    IF isCorrect THEN radios ELSE {selectedAnswer}

\* submitAnswer() without answeredQuestions.add(questionId).
SubmitAnswerWithoutAdd ==
    IF questionAnswered \/ checked[Current] = 0
    THEN UNCHANGED <<questionAnswered, disabled, banner, submitBtn,
                     correctAnswers, answeredQuestions>>
    ELSE
    LET selectedAnswer == checked[Current]
        correctValue == DataCorrect(questions[Current].answers[selectedAnswer])
        isCorrect == IsCorrect(correctValue)
        radios == 1..Len(questions[Current].answers)
    IN  /\ disabled' = [disabled EXCEPT ![Current] =
                            DisableAllAnswers(radios, @, selectedAnswer, isCorrect)]
        /\ IF isCorrect
           THEN /\ questionAnswered' = TRUE
                /\ banner' = "correct"
                /\ submitBtn' = [disabled |-> FALSE, text |-> "Continue"]
                /\ IF QuestionId(Current) \notin answeredQuestions
                   THEN /\ correctAnswers' = correctAnswers + 1
                        /\ UNCHANGED answeredQuestions
                   ELSE UNCHANGED <<correctAnswers, answeredQuestions>>
           ELSE /\ banner' = "incorrect"
                /\ submitBtn' = [disabled |-> TRUE, text |-> "Try again"]
                /\ UNCHANGED <<questionAnswered, correctAnswers, answeredQuestions>>

\* submitAnswer().
SubmitAnswer ==
    IF questionAnswered \/ checked[Current] = 0
    THEN UNCHANGED <<questionAnswered, disabled, banner, submitBtn,
                     correctAnswers, answeredQuestions>>
    ELSE
    LET selectedAnswer == checked[Current]
        correctValue == DataCorrect(questions[Current].answers[selectedAnswer])
        isCorrect == IsCorrect(correctValue)
        radios == 1..Len(questions[Current].answers)
    IN  /\ disabled' = [disabled EXCEPT ![Current] =
                            DisableAllAnswers(radios, @, selectedAnswer, isCorrect)]
        /\ IF isCorrect
           THEN /\ questionAnswered' = TRUE
                /\ banner' = "correct"
                /\ submitBtn' = [disabled |-> FALSE, text |-> "Continue"]
                /\ IF QuestionId(Current) \notin answeredQuestions
                   THEN /\ correctAnswers' = correctAnswers + 1
                        /\ answeredQuestions' = answeredQuestions \cup {QuestionId(Current)}
                   ELSE UNCHANGED <<correctAnswers, answeredQuestions>>
           ELSE /\ banner' = "incorrect"
                /\ submitBtn' = [disabled |-> TRUE, text |-> "Try again"]
                /\ UNCHANGED <<questionAnswered, correctAnswers, answeredQuestions>>

-----------------------------------------------------------------------------
(* The Learn page: GET /learn renders the questions, then the user clicks. *)

\* At most MaxQuestions questions are on the page.
MaxQuestions == 2

Answer(id, correct) == [id |-> Num(id), correct |-> correct]
Question(id, answers) == [id |-> Num(id), answers |-> answers]

QuestionPool ==
    { Question(1, <<Answer(1, Bool(TRUE)), Answer(2, Bool(FALSE)), Answer(3, Bool(FALSE))>>),
      Question(2, <<Answer(4, Str(<<"f", "a", "l", "s", "e">>)),
                    Answer(5, Str(<<"t", "r", "u", "e">>))>>),
      Question(3, <<Answer(6, Num(0)), Answer(7, Num(1)), Answer(8, Str(<<"1">>))>>),
      Question(4, <<Answer(9, Null), Answer(10, Bool(FALSE))>>) }

\* The lists of at most n questions with distinct ids.
RECURSIVE QuestionLists(_)
QuestionLists(n) ==
    IF n = 0 THEN {<<>>}
    ELSE QuestionLists(n - 1)
         \cup {Append(list, question) :
                 list \in {l \in QuestionLists(n - 1) : Len(l) = n - 1},
                 question \in QuestionPool}

DistinctIds(list) == \A i, j \in 1..Len(list) : list[i].id = list[j].id => i = j

\* What getNextTopic gave the handler: no next topic, a topic row, or a
\* topic row with an empty topic text.
NextTopicPool ==
    { Null,
      TopicData(TopicRow(11, <<"b">>, 3, Null), Undefined, Undefined),
      TopicData(TopicRow(12, <<>>, 3, Null), Undefined, Undefined) }

\* The correct flags the storage holds for a correct answer.
CorrectEncodings == {Bool(TRUE), Str(<<"t", "r", "u", "e">>), Num(1), Str(<<"1">>)}

\* The page as generateLearnPage renders it and as the script initialises
\* it: updateProgress(); showQuestion(0).
QuizInit ==
    /\ \E list \in QuestionLists(MaxQuestions) :
         /\ list # <<>>
         /\ DistinctIds(list)
         /\ questions = list
    /\ \E nextTopic \in NextTopicPool :
         /\ nextTopicName = NextTopicName(nextTopic)
         /\ nextTopicId = NextTopicId(nextTopic)
    /\ currentQuestionIndex = 0
    /\ correctAnswers = 0
    /\ answeredQuestions = {}
    /\ skippedQuestions = {}
    /\ questionAnswered = FALSE
    /\ checked = [q \in 1..Len(questions) |-> 0]
    /\ disabled = [q \in 1..Len(questions) |-> {}]
    /\ submitBtn = [disabled |-> TRUE, text |-> "Select an answer"]
    /\ banner = "hidden"
    /\ screen = "questions"
    /\ summary = NoSummary
    /\ lastEvent = [type |-> "load"]
    /\ submits = [q \in 1..Len(questions) |-> 0]

\* The history of the Submit clicks: one more for the current question when
\* the checked option is a correct answer in storage.
CountSubmit ==
    submits' =
        IF checked[Current] # 0
           /\ questions[Current].answers[checked[Current]].correct \in CorrectEncodings
        THEN [submits EXCEPT ![Current] = @ + 1]
        ELSE submits

\* The change event of a radio: the user checks `option` of the question
\* on display.
SelectAnswer ==
    /\ screen = "questions"
    /\ \E option \in 1..Len(questions[Current].answers) :
         /\ option \notin disabled[Current]
         /\ checked[Current] # option
         /\ checked' = [checked EXCEPT ![Current] = option]
         /\ lastEvent' = [type |-> "select", question |-> Current, option |-> option]
    /\ IF questionAnswered
       THEN UNCHANGED <<banner, submitBtn>>
       ELSE /\ banner' = IF banner = "incorrect" THEN "hidden" ELSE banner
            /\ submitBtn' = [disabled |-> FALSE, text |-> "Submit"]
    /\ UNCHANGED <<questions, nextTopicName, nextTopicId, currentQuestionIndex,
                   correctAnswers, answeredQuestions, skippedQuestions,
                   questionAnswered, disabled, screen, summary, submits,
                   mapVars, nextVars, callVars>>

\* The click handler of #learn-submit-btn (a disabled button gets no click).
SubmitClick ==
    /\ screen = "questions"
    /\ ~submitBtn.disabled
    /\ CountSubmit
    /\ IF questionAnswered
       THEN LET selectedAnswer == checked[Current]
                isCorrect == selectedAnswer # 0
                             /\ IsCorrect(DataCorrect(questions[Current].answers[selectedAnswer]))
            IN  /\ lastEvent' = [type |-> "continue", question |-> Current,
                                 option |-> selectedAnswer]
                /\ IF isCorrect /\ currentQuestionIndex < Len(questions) - 1
                   THEN /\ currentQuestionIndex' = currentQuestionIndex + 1
                        /\ ShowQuestion(currentQuestionIndex + 1)
                        /\ UNCHANGED <<screen, summary>>
                   ELSE IF isCorrect /\ currentQuestionIndex = Len(questions) - 1
                   THEN /\ ShowCongratulations(correctAnswers, Len(questions))
                        /\ UNCHANGED <<currentQuestionIndex, checked, disabled,
                                       submitBtn, questionAnswered>>
                   ELSE UNCHANGED <<currentQuestionIndex, checked, disabled, submitBtn,
                                    questionAnswered, banner, screen, summary>>
                /\ UNCHANGED <<correctAnswers, answeredQuestions>>
       ELSE /\ lastEvent' = [type |-> "submit", question |-> Current,
                             option |-> checked[Current],
                             locked |-> disabled[Current]]
            /\ SubmitAnswer
            /\ UNCHANGED <<currentQuestionIndex, checked, screen, summary>>
    /\ UNCHANGED <<questions, nextTopicName, nextTopicId, skippedQuestions,
                   mapVars, nextVars, callVars>>

\* The click handler of #learn-skip-btn with the button disabled whenever
\* the Submit button is.
SkipClickWhenSubmitEnabled ==
    /\ screen = "questions"
    /\ ~submitBtn.disabled
    /\ lastEvent' = [type |-> "skip", question |-> Current, option |-> 0]
    /\ skippedQuestions' = skippedQuestions \cup {QuestionId(Current)}
    /\ IF currentQuestionIndex < Len(questions) - 1
       THEN /\ currentQuestionIndex' = currentQuestionIndex + 1
            /\ ShowQuestion(currentQuestionIndex + 1)
            /\ UNCHANGED <<screen, summary>>
       ELSE /\ ShowCongratulations(correctAnswers, Len(questions))
            /\ UNCHANGED <<currentQuestionIndex, checked, disabled, submitBtn,
                           questionAnswered>>
    /\ UNCHANGED <<questions, nextTopicName, nextTopicId, correctAnswers,
                   answeredQuestions, submits, mapVars, nextVars, callVars>>

\* The click handler of #learn-skip-btn.
SkipClick ==
    /\ screen = "questions"
    /\ lastEvent' = [type |-> "skip", question |-> Current, option |-> 0]
    /\ skippedQuestions' = skippedQuestions \cup {QuestionId(Current)}
    /\ IF currentQuestionIndex < Len(questions) - 1
       THEN /\ currentQuestionIndex' = currentQuestionIndex + 1
            /\ ShowQuestion(currentQuestionIndex + 1)
            /\ UNCHANGED <<screen, summary>>
       ELSE /\ ShowCongratulations(correctAnswers, Len(questions))
            /\ UNCHANGED <<currentQuestionIndex, checked, disabled, submitBtn,
                           questionAnswered>>
    /\ UNCHANGED <<questions, nextTopicName, nextTopicId, correctAnswers,
                   answeredQuestions, submits, mapVars, nextVars, callVars>>

\* The click handler of #congratulations-back-btn: the browser leaves the page.
BackClick ==
    /\ screen = "congratulations"
    /\ screen' = "left"
    /\ lastEvent' = [type |-> "back", question |-> 0, option |-> 0]
    /\ UNCHANGED <<questions, nextTopicName, nextTopicId, currentQuestionIndex,
                   correctAnswers, answeredQuestions, skippedQuestions,
                   questionAnswered, checked, disabled, submitBtn, banner,
                   summary, submits, mapVars, nextVars, callVars>>

\* The click handler of #congratulations-continue-btn (a disabled button
\* gets no click).
ContinueClick ==
    /\ screen = "congratulations"
    /\ ~summary.continueDisabled
    /\ screen' = IF Truthy(nextTopicId) THEN "left" ELSE screen
    /\ lastEvent' = [type |-> "next-topic", question |-> 0, option |-> 0]
    /\ UNCHANGED <<questions, nextTopicName, nextTopicId, currentQuestionIndex,
                   correctAnswers, answeredQuestions, skippedQuestions,
                   questionAnswered, checked, disabled, submitBtn, banner,
                   summary, submits, mapVars, nextVars, callVars>>

QuizNext == SelectAnswer \/ SubmitClick \/ SkipClick \/ BackClick \/ ContinueClick

\* The Learn page alone.
QuizSpecInit == MapInit /\ SequencerInit /\ QuizInit /\ CallIdle
QuizSpec == QuizSpecInit /\ [][QuizNext]_vars

-----------------------------------------------------------------------------
(* Properties of the quiz (QuizSpec).                                      *)

\* C9: the correct-count is the number of questions for which Submit was
\* clicked with a correct option checked: each such question counts once,
\* however often Submit was clicked for it, and no other question counts.
C9_CountedOncePerQuestion ==
    correctAnswers = Cardinality({q \in 1..Len(submits) : submits[q] >= 1})

\* C9, its case: Submit was clicked a second time for a question whose
\* correct option had been submitted.
C9_Witness ==
    /\ \E q \in 1..Len(submits) : submits[q] >= 2
    /\ correctAnswers >= 1

\* The last event submitted an option that is not a correct answer in
\* storage.
IncorrectSubmitted ==
    /\ lastEvent.type = "submit"
    /\ lastEvent.option # 0
    /\ questions[lastEvent.question].answers[lastEvent.option].correct
           \notin CorrectEncodings

\* C10: a step that submits an incorrect option leaves the correct-count and
\* the question index as they were, locks the submitted option, leaves every
\* other option of the question selectable and keeps the question open.
C10_IncorrectSubmitFrame ==
    [][ IncorrectSubmitted' =>
            /\ correctAnswers' = correctAnswers
            /\ currentQuestionIndex' = currentQuestionIndex
            /\ answeredQuestions' = answeredQuestions
            /\ disabled'[Current] = {lastEvent'.option}
            /\ ~questionAnswered'
            /\ screen' = "questions"
            /\ banner' = "incorrect" ]_vars

\* C10, its case: an incorrect option was submitted while another option of
\* the question was locked by an earlier incorrect submission.
C10_Witness ==
    /\ IncorrectSubmitted
    /\ banner = "incorrect"
    /\ disabled[Current] = {lastEvent.option}
    /\ submitBtn.text = "Try again"
    /\ lastEvent.locked # {}
    /\ lastEvent.locked \cap disabled[Current] = {}

-----------------------------------------------------------------------------
(* Single calls.  The functions of the code are called one at a time with  *)
(* arguments drawn from small pools, and the call is kept in `call`.       *)

\* The alias fields, in the order of the || chain.
AliasNames ==
    <<"parent_node", "parent_node_id", "parent_id", "parent",
      "parent_label_id", "parent_label">>

\* At most MaxCandidates level-1 rows are candidates of a resolution.
MaxCandidates == 2

\* The values a parent reference takes in a row.
ReferencePool ==
    { Num(0), Num(1), Str(<<"1">>), Str(<<"0", "1">>), Str(<<"a">>), EmptyStr, Null }

\* The lists of at most n rows of a pool, no row twice.
RECURSIVE ListsOf(_, _)
ListsOf(n, pool) ==
    IF n = 0 THEN { <<>> }
    ELSE ListsOf(n - 1, pool)
         \cup UNION { { Append(l, r) : r \in { x \in pool : \A k \in 1..Len(l) : l[k] # x } } :
                        l \in { x \in ListsOf(n - 1, pool) : Len(x) = n - 1 } }

\* sortedLevel1 of every list of at most MaxCandidates level-1 rows.
CandidateLists == { SortedLevel1(l) : l \in ListsOf(MaxCandidates, Level1Pool) }

\* A level-2 row whose alias fields i and j hold v and w.
AliasedNode(i, v, j, w) ==
    Level2Row(Num(9), <<"n">>, Null,
              [[NoAlias EXCEPT ![AliasNames[i]] = v] EXCEPT ![AliasNames[j]] = w])

\* getParentNode(node) over sortedLevel1, called on its own.
ResolveParent ==
    /\ CallIdle
    /\ \E i \in 1..6, j \in 1..6, v \in ReferencePool,
          w \in ReferencePool \cup {Undefined}, sortedLevel1 \in CandidateLists :
          /\ i <= j
          /\ (i = j => w = v)
          /\ call' = [op |-> "getParentNode",
                      node |-> AliasedNode(i, v, j, w),
                      sortedLevel1 |-> sortedLevel1,
                      reference |-> ParentNodeValue(AliasedNode(i, v, j, w)),
                      value |-> GetParentNode(AliasedNode(i, v, j, w), sortedLevel1)]
    /\ UNCHANGED <<mapVars, nextVars, quizVars>>

\* The aliases of a row that hold a value (not undefined).
AliasesOf(node) == { i \in 1..6 : node[AliasNames[i]] # Undefined }

\* The row with its reference moved from alias i to alias k.
Realiased(node, i, k) ==
    [[node EXCEPT ![AliasNames[i]] = Undefined] EXCEPT ![AliasNames[k]] = node[AliasNames[i]]]

\* C11: a level-2 row that carries one reference value in one alias field
\* resolves to the same level-1 row (or to none), and is a child of the same
\* level-1 rows, whichever of the six alias fields carries the value.
C11_AliasTransparency ==
    call.op = "getParentNode" =>
        \A i \in AliasesOf(call.node) :
            (AliasesOf(call.node) = {i} /\ ~IsNullish(call.node[AliasNames[i]])) =>
                \A k \in 1..6 :
                    /\ GetParentNode(Realiased(call.node, i, k), call.sortedLevel1)
                           = call.value
                    /\ \A c \in 1..Len(call.sortedLevel1) :
                           IsChildOfLevel1(Realiased(call.node, i, k), call.sortedLevel1[c])
                               <=> IsChildOfLevel1(call.node, call.sortedLevel1[c])

\* At most MaxSiblings rows are sorted in one call.
MaxSiblings == 3

\* The lists of at most n rows drawn from a pool; the row at position k of a
\* list has id k.
RECURSIVE SiblingLists(_, _)
SiblingLists(n, pool) ==
    IF n = 0 THEN { <<>> }
    ELSE SiblingLists(n - 1, pool)
         \cup { Append(l, [r EXCEPT !.id = Num(n)]) :
                    l \in { x \in SiblingLists(n - 1, pool) : Len(x) = n - 1 },
                    r \in pool }

\* [...level1].sort(comparator), called on its own, on rows without item and
\* with an item in either letter case.
SortLevel1 ==
    /\ CallIdle
    /\ \E rows \in SiblingLists(MaxSiblings,
                                 { Level1Row(Num(0), <<"n">>, item) :
                                       item \in { Null, Str(<<"a">>), Str(<<"A">>),
                                                  Str(<<"b">>), Str(<<"B">>) } }) :
          call' = [op |-> "sortLevel1", rows |-> rows, sortedLevel1 |-> <<>>,
                   keys |-> [k \in 1..Len(rows) |-> Level1Keys(rows[k])],
                   value |-> SortedLevel1(rows)]
    /\ UNCHANGED <<mapVars, nextVars, quizVars>>

\* The level-1 rows the level-2 rows of SortLevel2 refer to.
Level2Parents ==
    SortedLevel1(<<Level1Row(Num(1), <<"a">>, Str(<<"a">>)),
                   Level1Row(Num(2), <<"b">>, Str(<<"B">>))>>)

\* [...level2].sort(comparator), called on its own, on rows without parent
\* and with either parent.
SortLevel2 ==
    /\ CallIdle
    /\ \E rows \in SiblingLists(MaxSiblings,
                                 { Level2Row(Num(0), <<"n">>, item,
                                             [NoAlias EXCEPT !.parent_id = parent]) :
                                       item \in { Null, Str(<<"a">>), Str(<<"A">>) },
                                       parent \in { Undefined, Num(1), Num(2) } }) :
          call' = [op |-> "sortLevel2", rows |-> rows, sortedLevel1 |-> Level2Parents,
                   keys |-> [k \in 1..Len(rows) |-> Level2Keys(rows[k], Level2Parents)],
                   value |-> SortedLevel2(rows, Level2Parents)]
    /\ UNCHANGED <<mapVars, nextVars, quizVars>>

\* The comparator of the sort that was called, on the rows at two positions
\* of its input (call.keys holds the keys the comparator reads of each row).
Comparator(i, j) == CompareKeys(call.keys[i], call.keys[j])

Resorted ==
    IF call.op = "sortLevel1" THEN SortedLevel1(call.value)
    ELSE SortedLevel2(call.value, call.sortedLevel1)

\* The parent the level-2 comparator resolves for a row (0: none).
ParentOf(row) ==
    IF call.op = "sortLevel1" THEN 0 ELSE GetParentNode(row, call.sortedLevel1)

Sorting == call.op \in {"sortLevel1", "sortLevel2"}

\* The position of a row of the input in the sorted output.
PositionOf(row) == CHOOSE k \in 1..Len(call.value) : call.value[k] = row

\* Two items that differ in letter case at most.
RECURSIVE SameButCase(_, _)
SameButCase(a, b) ==
    IF a = <<>> \/ b = <<>> THEN a = b
    ELSE LowerChar(Head(a)) = LowerChar(Head(b)) /\ SameButCase(Tail(a), Tail(b))

ItemText(row) == IF IsNullish(row.item) THEN <<>> ELSE row.item[2]

\* C12: the comparator of the sibling sort is a total preorder (each pair is
\* comparable, the two directions agree, and it is transitive); rows whose
\* items differ only in letter case, and a row without item and a row with
\* the empty item, compare equal under the same parent; sorting the sorted
\* list gives the same list; rows that compare equal keep their input order.
C12_ComparatorPreorder ==
    Sorting =>
        LET n == Len(call.rows)
        IN  /\ \A i, j \in 1..n :
                   /\ Comparator(i, j)
                          = 0 - Comparator(j, i)
                   /\ Comparator(i, j) \in {-1, 0, 1}
            /\ \A i, j, k \in 1..n :
                   (Comparator(i, j) <= 0
                       /\ Comparator(j, k) <= 0)
                   => Comparator(i, k) <= 0
            /\ \A i, j \in 1..n :
                   (/\ SameButCase(ItemText(call.rows[i]), ItemText(call.rows[j]))
                    /\ ParentOf(call.rows[i]) = ParentOf(call.rows[j]))
                   => Comparator(i, j) = 0
            /\ Len(call.value) = n
            /\ \A i, j \in 1..n :
                   Comparator(i, j) < 0
                   => PositionOf(call.rows[i]) < PositionOf(call.rows[j])
            /\ Resorted = call.value
            /\ \A i, j \in 1..n :
                   (i < j /\ Comparator(i, j) = 0)
                   => PositionOf(call.rows[i]) < PositionOf(call.rows[j])

\* A sort that moved a row over rows of a lower item, with two rows whose
\* items differ in letter case only.
C12_Witness ==
    /\ Sorting
    /\ call.value # call.rows
    /\ \E i, j \in 1..Len(call.rows) :
           /\ i < j
           /\ ItemText(call.rows[i]) # ItemText(call.rows[j])
           /\ Comparator(i, j) = 0

\* At most MaxExampleRows rows are in each table of a layout call.
MaxExampleRows == 2

\* Rows without a name: {id: 1, item: "A"}, {id: 3, item: "B"}, ...; the
\* second level-2 row has no item, and a stack has the id 0.
ExampleRows ==
    [level1 |->
         { [Level1Row(Num(1), <<>>, Str(<<"A">>)) EXCEPT !.name = Undefined],
           [Level1Row(Num(3), <<>>, Str(<<"B">>)) EXCEPT !.name = Undefined] },
     level2 |->
         { [Level2Row(Num(2), <<>>, Str(<<"A">>), [NoAlias EXCEPT !.parent_id = Num(1)])
               EXCEPT !.name = Undefined],
           [Level2Row(Num(4), <<>>, Null, [NoAlias EXCEPT !.parent_id = Num(3)])
               EXCEPT !.name = Undefined] },
     stacks |->
         { StackRow(Num(10), Num(2), Undefined, Str(<<"A">>)),
           StackRow(Num(11), Num(4), Undefined, Str(<<"B">>)),
           StackRow(Num(1), Num(2), Undefined, Str(<<"A">>)),
           StackRow(Num(0), Num(2), Undefined, Str(<<"B">>)) }]

\* generateMindMap(level1, level2, stacks), called on its own.
Layout ==
    /\ CallIdle
    /\ \E l1 \in ListsOf(MaxExampleRows, ExampleRows.level1),
          l2 \in ListsOf(MaxExampleRows, ExampleRows.level2),
          st \in ListsOf(MaxExampleRows, ExampleRows.stacks) :
          call' = [op |-> "generateMindMap", level1 |-> l1, level2 |-> l2,
                   stacks |-> st, value |-> GenerateMindMap(l1, l2, st)]
    /\ UNCHANGED <<mapVars, nextVars, quizVars>>

\* The call generateMindMap([{id: 1, item: "A"}],
\* [{id: 2, item: "A", parent_id: 1}], [{id: 10, label_id: 2, item: "A"}]).
ExampleCall ==
    /\ call.op = "generateMindMap"
    /\ call.level1 = <<[Level1Row(Num(1), <<>>, Str(<<"A">>)) EXCEPT !.name = Undefined]>>
    /\ call.level2 =
           <<[Level2Row(Num(2), <<>>, Str(<<"A">>), [NoAlias EXCEPT !.parent_id = Num(1)])
                 EXCEPT !.name = Undefined]>>
    /\ call.stacks = <<StackRow(Num(10), Num(2), Undefined, Str(<<"A">>))>>

Edges(connections) ==
    { <<connections[i].from, connections[i].to>> : i \in 1..Len(connections) }

\* C13: for one level-1 row {id: 1, item: "A"}, one level-2 row
\* {id: 2, item: "A", parent_id: 1} and one topic {id: 10, label_id: 2,
\* item: "A"}, the three nodes are at vertical position 0 and the edges are
\* exactly node-l1-1 -> node-l2-2 and node-l2-2 -> stack-10.
C13_AlignedExample ==
    ExampleCall =>
        /\ call.value.kind = "mind-map-container"
        /\ Len(call.value.column1) = 1 /\ call.value.column1[1].top = 0
        /\ Len(call.value.column2) = 1 /\ call.value.column2[1].top = 0
        /\ Len(call.value.column3) = 1 /\ call.value.column3[1].top = 0
        /\ call.value.column1[1].id = <<"node-l1-", <<"1">>>>
        /\ call.value.column2[1].id = <<"node-l2-", <<"2">>>>
        /\ call.value.column3[1].id = <<"stack-", <<"1", "0">>>>
        /\ Len(call.value.connections) = 2
        /\ Edges(call.value.connections) =
               { << <<"node-l1-", <<"1">>>>, <<"node-l2-", <<"2">>>> >>,
                 << <<"node-l2-", <<"2">>>>, <<"stack-", <<"1", "0">>>> >> }

C13_Witness == ExampleCall /\ call.value.kind = "mind-map-container"

-----------------------------------------------------------------------------
(* The exported entry points, called on their own.  A call either returns  *)
(* a value or throws; a thrown value is an Error with its message.         *)

Completes(v) == [kind |-> "return", value |-> v]
Throws(message) == [kind |-> "throw", error |-> <<"error", message>>]

\* getSupabaseClient(): throws when the credentials are not configured.
getSupabaseClient(credentials) ==
    IF credentials THEN Completes("client")
    ELSE Throws("Supabase credentials not configured")

\* A try block left without its catch: what the body threw is thrown on.
RethrowDatabase(body) == body

\* try { body } catch (error) { return { success: false, statusCode: 500,
\* error: 'Database connection error', message: error.message } }
CatchDatabase(body) ==
    IF body.kind = "throw" THEN Completes(Failure(500, "Database connection error"))
    ELSE body

\* What one read answers: rows, null data, an error, or a rejected promise.
ReadOutcomes == {"data", "null", "error", "reject"}

\* getLabels()
getLabels(credentials, read) ==
    CatchDatabase(
        IF ~credentials THEN getSupabaseClient(credentials)
        ELSE IF read = "reject" THEN Throws("fetch failed")
        ELSE IF read = "error" THEN Completes(Failure(500, "Failed to fetch labels"))
        ELSE Completes(Success(Arr(IF read = "null" THEN <<>> ELSE labels))))

\* getTopicQuestions(topicId): reads is the outcome of the reads of the
\* topic, of the questions, of the questions through the join and of the
\* answers; uuid tells whether the message of a questions error includes
\* "uuid"; rows are the questions of the topic.
getTopicQuestions(credentials, topicId, reads, uuid, rows) ==
    LET numeric == ParseInt(topicId) # NaN
        empty == [questions |-> <<>>, questionsWithAnswers |-> <<>>]
        found(answers) ==
            [questions |-> rows,
             questionsWithAnswers |->
                 [i \in 1..Len(rows) |-> [question |-> rows[i], answers |-> answers]]]
    IN  CatchDatabase(
            IF ~credentials THEN getSupabaseClient(credentials)
            ELSE IF numeric /\ reads.topic = "reject" THEN Throws("fetch failed")
            ELSE IF reads.questions = "reject" THEN Throws("fetch failed")
            ELSE IF reads.questions = "error"
                 THEN IF uuid /\ numeric
                      THEN IF reads.join = "reject" THEN Throws("fetch failed")
                           ELSE IF reads.join = "data" THEN Completes(Success(found(<<>>)))
                           ELSE Completes(Failure(500, "Failed to fetch questions"))
                      ELSE Completes(Failure(500, "Failed to fetch questions"))
            ELSE IF reads.questions = "null" \/ rows = <<>> THEN Completes(Success(empty))
            ELSE IF reads.answers = "reject" THEN Throws("fetch failed")
            ELSE IF reads.answers = "error"
                 THEN Completes(Failure(500, "Failed to fetch answers"))
            ELSE Completes(Success(found(IF reads.answers = "null" THEN <<>>
                                         ELSE <<"answers">>))))

\* An object of the LLM client is Obj of its <<key, value>> entries in
\* insertion order.  o[k] on such an object, undefined for a missing key.
Get(o, k) ==
    IF o[1] = "object" /\ MapIndex(o[2], k) # 0 THEN MapGet(o[2], k) ELSE Undefined

\* a[i] on an array, from 0.
At(a, i) == IF a[1] = "array" /\ i < Len(a[2]) THEN a[2][i + 1] ELSE Undefined

\* JSON.stringify(v): the text of v.  items are the elements of an array or
\* the entries of an object; an undefined member of an object is left out.
RECURSIVE JsonText(_)
RECURSIVE JsonItems(_, _)
JsonItems(items, object) ==
    IF items = <<>> THEN <<>>
    ELSE LET rest == JsonItems(Tail(items), object)
             item == IF object
                     THEN <<"\"">> \o Head(items)[1] \o <<"\"", ":">>
                          \o JsonText(Head(items)[2])
                     ELSE JsonText(Head(items))
         IN  IF object /\ Head(items)[2] = Undefined THEN rest
             ELSE IF rest = <<>> THEN item
             ELSE item \o <<",">> \o rest
JsonText(v) ==
    CASE v[1] = "string" -> <<"\"">> \o v[2] \o <<"\"">>
      [] v[1] = "number" -> NumToString(v[2])
      [] v[1] = "array"  -> <<"[">> \o JsonItems(v[2], FALSE) \o <<"]">>
      [] v[1] = "object" -> <<"{">> \o JsonItems(v[2], TRUE) \o <<"}">>
      [] OTHER           -> <<"n", "u", "l", "l">>

\* extractResponseText(response); reading a property of undefined or null
\* throws a TypeError.
extractResponseText(response) ==
    LET text == <<"t", "e", "x", "t">>
        inner == Get(response, <<"r", "e", "s", "p", "o", "n", "s", "e">>)
        candidates == Get(response, <<"c", "a", "n", "d", "i", "d", "a", "t", "e", "s">>)
        content == Get(At(candidates, 0), <<"c", "o", "n", "t", "e", "n", "t">>)
        parts == Get(content, <<"p", "a", "r", "t", "s">>)
    IN  IF IsNullish(response) THEN Throws("Cannot read properties")
        ELSE IF Truthy(Get(response, text)) THEN Completes(Get(response, text))
        ELSE IF Truthy(inner) /\ Truthy(Get(inner, text))
             THEN Completes(Get(inner, text))
        ELSE IF Truthy(candidates) /\ Truthy(At(candidates, 0)) /\ Truthy(content)
             THEN IF IsNullish(parts) \/ IsNullish(At(parts, 0))
                  THEN Throws("Cannot read properties")
                  ELSE Completes(Get(At(parts, 0), text))
        ELSE Completes(Str(JsonText(response)))

\* s.trim() on the blanks of the model.
RECURSIVE TrimEnd(_)
TrimEnd(s) ==
    IF s # <<>> /\ s[Len(s)] = " " THEN TrimEnd(SubSeq(s, 1, Len(s) - 1)) ELSE s
Trim(s) == TrimEnd(SkipSpaces(s))

\* handleLLMRequest(prompt): apiKey tells whether GEMINI_API_KEY is set,
\* generated is what client.models.generateContent answered or threw.
handleLLMRequest(prompt, apiKey, generated) ==
    IF ~Truthy(prompt) \/ prompt[1] # "string" \/ Trim(prompt[2]) = <<>>
    THEN Completes(Failure(400, "Prompt is required"))
    ELSE IF ~apiKey
    THEN Completes(Failure(500, "Server configuration error: API key not set"))
    ELSE LET responseText == IF generated.kind = "throw" THEN generated
                             ELSE extractResponseText(generated.value)
         IN  IF responseText.kind = "throw"
             THEN Completes(Failure(500, "Failed to get response from Gemini"))
             ELSE Completes([success |-> TRUE, statusCode |-> 200, error |-> "",
                             response |-> responseText.value])

\* What generateContent resolves with: the three shapes with a text, and
\* shapes that hold none.
ResponsePool ==
    LET text(t) == Obj(<< <<<<"t", "e", "x", "t">>, t>> >>)
        candidates(c) == Obj(<< <<<<"c", "a", "n", "d", "i", "d", "a", "t", "e", "s">>,
                                  Arr(c)>> >>)
        content(c) == Obj(<< <<<<"c", "o", "n", "t", "e", "n", "t">>, c>> >>)
        parts(p) == Obj(<< <<<<"p", "a", "r", "t", "s">>, Arr(p)>> >>)
    IN  { text(Str(<<"h", "i">>)),
          Obj(<< <<<<"r", "e", "s", "p", "o", "n", "s", "e">>, text(Str(<<"h", "i">>))>> >>),
          candidates(<<content(parts(<<text(Str(<<"h", "i">>))>>))>>),
          candidates(<<content(parts(<<>>))>>),
          candidates(<<content(parts(<<Obj(<<>>)>>))>>),
          candidates(<<content(Obj(<<>>))>>),
          candidates(<<>>),
          text(EmptyStr),
          Obj(<<>>),
          Undefined }

\* The entry points, called once each with every outcome of their
\* collaborators.  The prompts of handleLLMRequest: none, a number, empty,
\* blank, and a text.
LabelsCall ==
    /\ CallIdle
    /\ \E credentials \in BOOLEAN, read \in ReadOutcomes :
          call' = [op |-> "getLabels", credentials |-> credentials, read |-> read,
                   value |-> getLabels(credentials, read)]
    /\ UNCHANGED <<mapVars, nextVars, quizVars>>

TopicQuestionsCall ==
    /\ CallIdle
    /\ \E credentials \in BOOLEAN, topicId \in {Str(<<"1", "0">>), Str(<<"a">>)},
          reads \in [{"topic", "questions", "join", "answers"} -> ReadOutcomes],
          uuid \in BOOLEAN, rows \in {<<>>, <<"question">>} :
          call' = [op |-> "getTopicQuestions", credentials |-> credentials,
                   topicId |-> topicId, reads |-> reads, uuid |-> uuid, rows |-> rows,
                   value |-> getTopicQuestions(credentials, topicId, reads, uuid, rows)]
    /\ UNCHANGED <<mapVars, nextVars, quizVars>>

MindMapDataCall ==
    /\ CallIdle
    /\ \E failed \in ReadFailures :
          call' = [op |-> "getMindMapData", failed |-> failed,
                   value |-> CatchDatabase(IF "client" \in failed
                                           THEN getSupabaseClient(FALSE)
                                           ELSE Completes(GetMindMapData(failed)))]
    /\ UNCHANGED <<mapVars, nextVars, quizVars>>

TopicInfoCall ==
    /\ CallIdle
    /\ \E topicId \in TopicIdPool, failed \in SequencerReadFailures :
          call' = [op |-> "getTopicInfo", topicId |-> topicId, failed |-> failed,
                   value |-> CatchDatabase(IF "client" \in failed
                                           THEN getSupabaseClient(FALSE)
                                           ELSE Completes(getTopicInfo(topicId, failed)))]
    /\ UNCHANGED <<mapVars, nextVars, quizVars>>

NextTopicCall ==
    /\ CallIdle
    /\ \E topicId \in TopicIdPool, failed \in SequencerReadFailures :
          call' = [op |-> "getNextTopic", topicId |-> topicId, failed |-> failed,
                   value |-> CatchDatabase(IF "client" \in failed
                                           THEN getSupabaseClient(FALSE)
                                           ELSE Completes(getNextTopic(topicId, failed)))]
    /\ UNCHANGED <<mapVars, nextVars, quizVars>>

LLMRequestCall ==
    /\ CallIdle
    /\ \E prompt \in { Undefined, Num(5), EmptyStr, Str(<<" ">>), Str(<<" ", "h", "i">>) },
          apiKey \in BOOLEAN,
          generated \in { Completes(r) : r \in ResponsePool } \cup { Throws("fetch failed") } :
          call' = [op |-> "handleLLMRequest", prompt |-> prompt, apiKey |-> apiKey,
                   generated |-> generated,
                   value |-> handleLLMRequest(prompt, apiKey, generated)]
    /\ UNCHANGED <<mapVars, nextVars, quizVars>>

EntryPoints ==
    { "getLabels", "getMindMapData", "getTopicQuestions", "getTopicInfo",
      "getNextTopic", "handleLLMRequest" }

\* C14: every exported storage and LLM entry point returns a result tagged
\* with success, with its payload when it succeeded and with an error when
\* it failed, for every outcome of its collaborators, missing credentials
\* included; none throws.
C14_TaggedResults ==
    call.op \in EntryPoints =>
        /\ call.value.kind = "return"
        /\ "success" \in DOMAIN call.value.value
        /\ call.value.value.success \in BOOLEAN
        /\ call.value.value.success =>
               DOMAIN call.value.value \cap {"data", "response"} # {}
        /\ ~call.value.value.success => call.value.value.error # ""

\* A storage entry point called without credentials came back with a
\* failure.
C14_Witness ==
    /\ call.op \in {"getLabels", "getTopicQuestions"}
    /\ ~call.credentials
    /\ call.value.kind = "return"
    /\ ~call.value.value.success

-----------------------------------------------------------------------------
(* One call of a function or of an entry point.                            *)

CallNext ==
    \/ ResolveParent \/ SortLevel1 \/ SortLevel2 \/ Layout
    \/ LabelsCall \/ MindMapDataCall \/ TopicQuestionsCall \/ TopicInfoCall
    \/ NextTopicCall \/ LLMRequestCall

\* The rows in storage when it is not empty.
StoredRows ==
    [level1 |-> <<Level1Row(Num(1), <<"a">>, Str(<<"a">>))>>,
     level2 |-> <<Level2Row(Num(1), <<"a">>, Str(<<"a">>),
                            [NoAlias EXCEPT !.parent_id = Num(1)])>>,
     stacks |-> <<StackRow(Num(1), Num(1), Undefined, Str(<<"b">>))>>,
     labels |-> <<LabelRow(1, <<"a">>, Str(<<"a">>), 1, NoAlias),
                  LabelRow(3, <<"b">>, Str(<<"1">>), 2, [NoAlias EXCEPT !.parent_id = Num(1)]),
                  LabelRow(4, <<"c">>, Str(<<"2">>), 2, [NoAlias EXCEPT !.parent_id = Num(1)]),
                  LabelRow(6, <<"a">>, Str(<<"1">>), 3,
                           [NoAlias EXCEPT !.parent_label_id = Num(3)])>>,
     topics |-> <<TopicRow(10, <<"a">>, 3, Str(<<"A">>)),
                  TopicRow(11, <<"b">>, 3, Str(<<"B">>)),
                  TopicRow(12, <<"a">>, 4, Str(<<"A">>)),
                  TopicRow(15, <<"a">>, 6, Str(<<"A">>))>>]

\* Storage is empty or holds StoredRows; no page was rendered, no Learn page
\* is open and no call was made.
CallSpecInit ==
    /\ \E populated \in BOOLEAN :
          /\ level1 = IF populated THEN StoredRows.level1 ELSE <<>>
          /\ level2 = IF populated THEN StoredRows.level2 ELSE <<>>
          /\ stacks = IF populated THEN StoredRows.stacks ELSE <<>>
          /\ labels = IF populated THEN StoredRows.labels ELSE <<>>
          /\ topics = IF populated THEN StoredRows.topics ELSE <<>>
    /\ page = NoPage
    /\ nextResult = NoResult
    /\ QuizIdle
    /\ CallIdle
CallSpec == CallSpecInit /\ [][CallNext]_vars

\* getNextTopic(topicId) reaches its read of the level-2 labels: the current
\* topic and its label are found, no sibling follows, and the label has a
\* parent reference.
ParentLabelsRead(topicId) ==
    LET topicResult == getTopicInfo(topicId, {})
        currentLabel == CurrentLabelOf(topicResult.data)
        sameParentTopics == SameParentTopics(TopicsWithLabels(topics), currentLabel)
        currentIndex ==
            FindIndex(sameParentTopics,
                      LAMBDA t : StringOf(t[2].id) = StringOf(topicResult.data[2].id))
    IN  /\ topicResult.success
        /\ Truthy(topicResult.data)
        /\ Truthy(currentLabel)
        /\ NextSibling(sameParentTopics, currentIndex, ItemKey(currentLabel[2])) = 0
        /\ Truthy(ParentNodeValue(currentLabel[2]))

\* A read that the call issued has failed and no other read stood in for it
\* (the topics table stands in for the stacks table, the plain read of the
\* topic for the read with its label).  Of the reads that fail, the one that
\* comes first in the code is always issued.
FailedReadIssued ==
    /\ "client" \notin call.failed
    /\ \/ /\ call.op = "getMindMapData"
          /\ \/ call.failed \cap {"level1", "level2", "progress"} # {}
             \/ {"stacks", "topics"} \subseteq call.failed
       \/ /\ call.op \in {"getTopicInfo", "getNextTopic"}
          /\ ParseInt(call.topicId) # NaN
          /\ "topicJoin" \in call.failed
          /\ \/ "topic" \in call.failed
             \/ "label" \in call.failed /\ getTopicInfo(call.topicId, {"topicJoin"}).success
       \/ /\ call.op = "getNextTopic"
          /\ call.failed = {"allTopics"}
          /\ getNextTopic(call.topicId, {}).success
       \/ /\ call.op = "getNextTopic"
          /\ call.failed = {"parentLabels"}
          /\ ParentLabelsRead(call.topicId)

\* C15: whenever a storage read issued by getMindMapData, getTopicInfo or
\* getNextTopic fails, the call returns a failure (success = false), never a
\* success with empty or null data.
C15_FailedReadIsFailure ==
    (call.op \in {"getMindMapData", "getTopicInfo", "getNextTopic"} /\ FailedReadIssued)
        => ~call.value.value.success

\* The text of a response in one of the three recognised places (text,
\* response.text, candidates[0].content.parts[0].text), undefined when no
\* place holds a text.
RecognisedText(response) ==
    LET text == <<"t", "e", "x", "t">>
        isText(v) == v[1] = "string" /\ v[2] # <<>>
        direct == Get(response, text)
        inner == Get(Get(response, <<"r", "e", "s", "p", "o", "n", "s", "e">>), text)
        candidate ==
            At(Get(response, <<"c", "a", "n", "d", "i", "d", "a", "t", "e", "s">>), 0)
        part == At(Get(Get(candidate, <<"c", "o", "n", "t", "e", "n", "t">>),
                       <<"p", "a", "r", "t", "s">>), 0)
    IN  IF isText(direct) THEN direct
        ELSE IF isText(inner) THEN inner
        ELSE IF isText(Get(part, text)) THEN Get(part, text)
        ELSE Undefined

\* C16: handleLLMRequest returns success only when the LLM call answered a
\* response that holds a text in a recognised place, and then with that text;
\* when the call fails or the response holds no such text, it returns a
\* failure.
C16_MalformedIsFailure ==
    (call.op = "handleLLMRequest" /\ call.value.value.success) =>
        /\ call.generated.kind = "return"
        /\ RecognisedText(call.generated.value) # Undefined
        /\ call.value.value.response = RecognisedText(call.generated.value)

-----------------------------------------------------------------------------
(* The completion summary of the Learn page.                               *)

\* The step leaves the last question: Skip, or Continue on a correct answer.
LeavesLastQuestion ==
    /\ screen = "questions"
    /\ Current = Len(questions)
    /\ \/ lastEvent'.type = "skip"
       \/ /\ lastEvent'.type = "continue"
          /\ lastEvent'.option # 0
          /\ IsCorrect(DataCorrect(questions[Current].answers[lastEvent'.option]))

\* The step shows the completion summary.
ShowsSummary == screen # "congratulations" /\ screen' = "congratulations"

\* C17: a step shows the completion summary exactly when it leaves the last
\* question (Continue after a correct answer, or Skip); the summary reports
\* the correct answers counted so far and the number of questions, and
\* Continue is enabled exactly when the page was given a next topic.
C17_CompletionSummary ==
    [][ /\ LeavesLastQuestion <=> ShowsSummary
        /\ ShowsSummary =>
              /\ summary'.shown
              /\ summary'.correct = correctAnswers
              /\ summary'.total = Len(questions)
              /\ summary'.continueDisabled <=> (nextTopicId = Null)
      ]_vars

\* The rows of a rendered column, in their order.
ColumnRows(column) == [i \in 1..Len(column) |-> column[i].node]

\* The items a topic is ordered by: of its level-1 ancestor, of its level-2
\* label, and its own ('' for none), resolved in the rendered columns.
TopicItems(stack) ==
    LET sortedLevel1 == ColumnRows(call.value.column1)
        sortedLevel2 == ColumnRows(call.value.column2)
        parent2 == GetParentNode2(stack, sortedLevel2)
        parent1 == IF parent2 = 0 THEN 0
                   ELSE GetParentNode(sortedLevel2[parent2], sortedLevel1)
    IN  [level1 |-> ItemKeyAt(sortedLevel1, parent1),
         level2 |-> ItemKeyAt(sortedLevel2, parent2),
         own |-> ItemKey(stack)]

LaidOut == call.op = "generateMindMap" /\ call.value.kind = "mind-map-container"

\* The last topic of the order with the element id of topic i.
LastWithId(i) ==
    CHOOSE k \in i..Len(call.value.column3) :
        /\ call.value.column3[k].id = call.value.column3[i].id
        /\ \A m \in (k + 1)..Len(call.value.column3) :
               call.value.column3[m].id # call.value.column3[i].id

\* C18 as stated: the topics are ordered by the item of their level-2 label,
\* then by the item of its level-1 ancestor, then by their own item, and
\* topic i of the order (from 0) is at position i * nodeSpacing.
C18_Level2ItemFirst ==
    LaidOut =>
        /\ \A i, j \in 1..Len(call.value.column3) :
               i < j =>
                   CompareKeys(<<TopicItems(call.value.column3[i].node).level2,
                                 TopicItems(call.value.column3[i].node).level1,
                                 TopicItems(call.value.column3[i].node).own>>,
                               <<TopicItems(call.value.column3[j].node).level2,
                                 TopicItems(call.value.column3[j].node).level1,
                                 TopicItems(call.value.column3[j].node).own>>) <= 0
        /\ \A i \in 1..Len(call.value.column3) :
               call.value.column3[i].top = (i - 1) * nodeSpacing

\* C18, amended: the topics are ordered by the item of their level-1
\* ancestor, then by the item of their level-2 label, then by their own item;
\* topic i of the order (from 0) is assigned position i * nodeSpacing under
\* its element id, and is rendered at the position assigned last to that id.
C18_Level1ItemFirst ==
    LaidOut =>
        /\ \A i, j \in 1..Len(call.value.column3) :
               i < j =>
                   CompareKeys(<<TopicItems(call.value.column3[i].node).level1,
                                 TopicItems(call.value.column3[i].node).level2,
                                 TopicItems(call.value.column3[i].node).own>>,
                               <<TopicItems(call.value.column3[j].node).level1,
                                 TopicItems(call.value.column3[j].node).level2,
                                 TopicItems(call.value.column3[j].node).own>>) <= 0
        /\ \A i \in 1..Len(call.value.column3) :
               call.value.column3[i].top = (LastWithId(i) - 1) * nodeSpacing

\* Two topics were laid out whose level-1 items and level-2 items order them
\* in opposite ways.
C18_Witness ==
    /\ LaidOut
    /\ \E i, j \in 1..Len(call.value.column3) :
           /\ i < j
           /\ LocaleCompare(TopicItems(call.value.column3[i].node).level1,
                            TopicItems(call.value.column3[j].node).level1) < 0
           /\ LocaleCompare(TopicItems(call.value.column3[i].node).level2,
                            TopicItems(call.value.column3[j].node).level2) > 0

\* The value of the first alias field, in the order of AliasNames, that is
\* neither null nor undefined; undefined when there is none.
FirstNonNullAlias(node) ==
    LET present == { i \in 1..6 : ~IsNullish(node[AliasNames[i]]) }
    IN  IF present = {} THEN Undefined
        ELSE node[AliasNames[CHOOSE i \in present : \A k \in present : i <= k]]

\* C19: the parent reference of a row is the value of its first alias field
\* that is not null, in the order parent_node, parent_node_id, parent_id,
\* parent, parent_label_id, parent_label; a value such as 0 or '' in an
\* earlier alias is used and not skipped for a later alias.
C19_FirstNonNullAlias ==
    call.op = "getParentNode" =>
        IF FirstNonNullAlias(call.node) = Undefined
        THEN IsNullish(call.reference)
        ELSE call.reference = FirstNonNullAlias(call.node)

\* The reference matches the candidate by id: by identity, parsed as an
\* integer, or in string form.
MatchesById(n, reference) ==
    \/ StrictEq(n.id, reference)
    \/ StrictEq(n.id, ParseInt(reference))
    \/ StringOf(n.id) = StringOf(reference)

\* C20: when the reference of a row matches a candidate by id, the candidate
\* resolved is one that matches by id, also when a candidate that matches by
\* name only comes earlier among the candidates.
C20_IdMatchWins ==
    (/\ call.op = "getParentNode"
     /\ ~IsNullish(call.reference)
     /\ \E k \in 1..Len(call.sortedLevel1) :
            MatchesById(call.sortedLevel1[k], call.reference))
        => /\ call.value # 0
           /\ MatchesById(call.sortedLevel1[call.value], call.reference)

-----------------------------------------------------------------------------
(* Properties of the data page (MapSpec), continued.                       *)

\* The rows of column 2, in order: sortedLevel2.
Column2Rows == [j \in 1..Len(page.html.column2) |-> page.html.column2[j].node]

\* The level-2 nodes of column 2 that resolve to no level-1 node: no alias
\* holds a reference, or the reference matches no level-1 row.
Orphans ==
    {j \in 1..Len(page.html.column2) :
        GetParentNode(page.html.column2[j].node, Column1Rows) = 0}

\* firstLevel2 of the level-1 loop for the node at index i of column 1: an
\* index of column 2, 0 for undefined.
FirstLevel2(i) ==
    FindIndex(Column2Rows, LAMBDA node2 : IsChildOfLevel1(node2, Column1Rows[i]))

\* C21: an orphan level-2 label is laid out with a position, no edge has its
\* element as target, and no level-1 label takes its position from it.
C21_OrphanRendered ==
    Rendered =>
        \A j \in Orphans :
            /\ page.html.column2[j].top \in
                   {k * nodeSpacing : k \in 0..(page.html.maxHeight \div nodeSpacing - 1)}
            /\ \A c \in 1..Len(page.html.connections) :
                   page.html.connections[c].to # page.html.column2[j].id
            /\ \A i \in 1..Len(page.html.column1) :
                   /\ FirstLevel2(i) # j
                   /\ FirstLevel2(i) # 0
                          => page.html.column2[FirstLevel2(i)].id # page.html.column2[j].id

-----------------------------------------------------------------------------
(* Properties of the quiz (QuizSpec), continued.                           *)

\* The option checked for the current question is a correct answer in
\* storage and was submitted: the question is answered correctly.
AnsweredCorrectly ==
    /\ questionAnswered
    /\ checked[Current] # 0
    /\ questions[Current].answers[checked[Current]].correct \in CorrectEncodings
    /\ QuestionId(Current) \in answeredQuestions

\* C22: the question index moves by one step forward at most and stays on a
\* question of the page; it moves only by a Skip click, or by a click of
\* the Submit button (then labelled Continue) once the current question is
\* answered correctly.
C22_AdvanceByOne ==
    [][ /\ currentQuestionIndex' \in {currentQuestionIndex, currentQuestionIndex + 1}
        /\ currentQuestionIndex' \in 0..(Len(questions) - 1)
        /\ currentQuestionIndex' # currentQuestionIndex
               => \/ lastEvent'.type = "skip"
                  \/ lastEvent'.type = "continue" /\ AnsweredCorrectly ]_vars

\* C22, its case: Continue moved the page to the second question after the
\* first was answered correctly.
C22_Witness ==
    /\ lastEvent.type = "continue"
    /\ currentQuestionIndex = 1
    /\ lastEvent.question = 1
    /\ submits[1] >= 1
    /\ screen = "questions"

\* C23: Correct and Skipped exclude each other for a question: no question
\* id is recorded both as answered correctly and as skipped (a question
\* answered correctly is not recorded as skipped afterwards, a skipped
\* question is not counted as correct afterwards).
C23_CorrectSkippedExclusive ==
    answeredQuestions \cap skippedQuestions = {}

-----------------------------------------------------------------------------
(* Properties of the topic sequencer (SequencerSpec), continued.           *)

\* Every topic is under a level-2 label whose parent reference is absent or
\* matches, by its id or by its name, a level-1 label in storage.
Level2Data ==
    \A i \in 1..Len(topics) :
        /\ LabelOf(i).level = Num(2)
        /\ \/ IsNullish(ParentNodeValue(LabelOf(i)))
           \/ \E k \in 1..Len(labels) :
                  /\ labels[k].level = Num(1)
                  /\ MatchesParentNode(labels[k], ParentNodeValue(LabelOf(i)))

\* The topic ids of the chain so far: those of the earlier calls and that of
\* the call made last.
ChainSoFar ==
    {nextResult.visited[k] : k \in 1..Len(nextResult.visited)} \cup {nextResult.topicId}

\* C24: over such data, following the returned topic from any topic, a call
\* never returns the topic it was made for nor a topic of an earlier call
\* of the chain, so the chain ends with none after at most as many calls
\* as there are topics; a call in which no read fails succeeds.
C24_ChainEnds ==
    (Level2Data /\ RequestedTopic # 0) =>
        /\ nextResult.failed = {} => nextResult.result.success
        /\ (nextResult.result.success /\ Truthy(nextResult.result.data))
               => /\ Str(StringOf(nextResult.result.data[2].id)) \notin ChainSoFar
                  /\ \E i \in 1..Len(topics) : Returned(i)
                  /\ Len(nextResult.visited) + 2 <= Len(topics)

\* C24, its case: the chain went from a first topic to a second one and
\* ended there with none.
C24_Witness ==
    /\ Level2Data
    /\ Len(nextResult.visited) = 1
    /\ nextResult.failed = {}
    /\ ReturnedNone

-----------------------------------------------------------------------------
(* Properties of the data page (MapSpec): rows and element ids.            *)

\* The ids of the rows of a level are unique and none is zero.
UniqueNonZeroIds(rows) ==
    /\ \A i, j \in 1..Len(rows) : rows[i].id = rows[j].id => i = j
    /\ \A i \in 1..Len(rows) : rows[i].id[1] = "number" /\ rows[i].id[2] # 0

\* The positions of the nodes of a column.
Tops(column) == {column[i].top : i \in 1..Len(column)}

\* The level-2 nodes without a topic and the level-1 nodes to which no
\* level-2 node resolves: the nodes the layout appends.
Level2WithoutTopics == {j \in 1..Len(page.html.column2) : StacksOf(j) = {}}
Level1WithoutChildren == {i \in 1..Len(page.html.column1) : ResolvedChildren(i) = {}}

\* C25: with ids unique and non-zero in each level, the container height is
\* the greatest position plus the row pitch, and is the pitch times the
\* number of topics, level-2 labels without topics and level-1 labels
\* without level-2 children; every row below that height holds a node; an
\* appended node lies below every topic.
C25_NoGaps ==
    (Rendered /\ UniqueNonZeroIds(level1) /\ UniqueNonZeroIds(level2)
        /\ UniqueNonZeroIds(stacks)) =>
        LET occupied == Tops(page.html.column1) \cup Tops(page.html.column2)
                            \cup Tops(page.html.column3)
            rows == Len(page.html.column3) + Cardinality(Level2WithoutTopics)
                        + Cardinality(Level1WithoutChildren)
        IN  /\ page.html.maxHeight = Max(occupied) + nodeSpacing
            /\ page.html.maxHeight = nodeSpacing * rows
            /\ occupied = {k * nodeSpacing : k \in 0..(rows - 1)}
            /\ \A j \in Level2WithoutTopics, t \in 1..Len(page.html.column3) :
                   page.html.column2[j].top > page.html.column3[t].top
            /\ \A i \in Level1WithoutChildren, t \in 1..Len(page.html.column3) :
                   page.html.column1[i].top > page.html.column3[t].top

\* The level-2 nodes of column 2 that the label reference of the topic at
\* index t of column 3 matches.
Level2Of(t) == {j \in 1..Len(page.html.column2) : t \in StacksOf(j)}

\* The level-1 nodes of column 1 that the parent reference of the level-2
\* node at index j of column 2 matches, by any of the five rules.
Level1Of(j) ==
    {i \in 1..Len(page.html.column1) :
        /\ ~IsNullish(ParentNodeValue(page.html.column2[j].node))
        /\ MatchesParentNode(page.html.column1[i].node,
                             ParentNodeValue(page.html.column2[j].node))}

\* No two nodes of a column have the same position.
DistinctTops(column) ==
    \A i, j \in 1..Len(column) : column[i].top = column[j].top => i = j

\* C26: with ids unique and non-zero in each level, every topic matching at
\* most one level-2 label and every level-2 label matching at most one
\* level-1 label, no two nodes of a column are at the same position.
C26_DistinctPositions ==
    (/\ Rendered
     /\ UniqueNonZeroIds(level1) /\ UniqueNonZeroIds(level2) /\ UniqueNonZeroIds(stacks)
     /\ \A t \in 1..Len(page.html.column3) : Cardinality(Level2Of(t)) <= 1
     /\ \A j \in 1..Len(page.html.column2) : Cardinality(Level1Of(j)) <= 1)
    => /\ DistinctTops(page.html.column1)
       /\ DistinctTops(page.html.column2)
       /\ DistinctTops(page.html.column3)

\* The element ids of the nodes rendered in a column.
ElementIds(column) == {column[i].id : i \in 1..Len(column)}

\* C27: every edge starts and ends at the element id of a rendered node: an
\* edge of column 2 goes from a level-1 node to a level-2 node, an edge of
\* column 3 from a level-2 node to a topic, whatever the ids of the rows.
C27_EdgesJoinRenderedNodes ==
    Rendered =>
        \A c \in 1..Len(page.html.connections) :
            LET conn == page.html.connections[c]
            IN  IF conn.type = "l1-l2"
                THEN /\ conn.from \in ElementIds(page.html.column1)
                     /\ conn.to \in ElementIds(page.html.column2)
                ELSE /\ conn.from \in ElementIds(page.html.column2)
                     /\ conn.to \in ElementIds(page.html.column3)

\* C28: the correct-count is the number of question ids recorded as answered
\* correctly and lies between 0 and the number of the current question,
\* which is at most the number of questions; no step decreases it and a
\* click on Skip leaves it as it is.
C28_CountBounds ==
    /\ [](/\ correctAnswers = Cardinality(answeredQuestions)
          /\ 0 <= correctAnswers
          /\ correctAnswers <= currentQuestionIndex + 1
          /\ currentQuestionIndex + 1 <= Len(questions))
    /\ [][ /\ correctAnswers' >= correctAnswers
           /\ (SkipClick => correctAnswers' = correctAnswers) ]_vars

\* C28, its case: with one question answered correctly the user has skipped
\* the next one, the last of the page, and the count is still one.
C28_Witness ==
    /\ lastEvent.type = "skip"
    /\ lastEvent.question = 2
    /\ correctAnswers = 1
    /\ Cardinality(answeredQuestions) = 1
    /\ screen = "congratulations"

\* The question at index q has no option that is rendered as correct.
NoCorrectOption(q) ==
    \A a \in 1..Len(questions[q].answers) : ~RenderedIsCorrect(questions[q].answers[a])

\* C29: while the questions are on display a click on Skip is possible,
\* and it moves to the next question or, at the last question, shows the
\* summary; the index never goes back. So from every state before the
\* summary, Len(questions) - currentQuestionIndex clicks on Skip reach it.
C29_SkipReachesSummary ==
    /\ [](screen = "questions" =>
            /\ ENABLED SkipClick
            /\ currentQuestionIndex \in 0..Len(questions) - 1)
    /\ [][ /\ currentQuestionIndex' >= currentQuestionIndex
           /\ SkipClick =>
                IF currentQuestionIndex < Len(questions) - 1
                THEN currentQuestionIndex' = currentQuestionIndex + 1
                     /\ screen' = "questions"
                ELSE screen' = "congratulations" /\ summary'.shown ]_vars

\* C29, its case: the last question has no correct option, one of its
\* options was submitted and is locked, with every option but one locked,
\* and a click on Skip has shown the summary.
C29_Witness ==
    /\ screen = "congratulations"
    /\ summary.shown
    /\ lastEvent.type = "skip"
    /\ lastEvent.question = Len(questions)
    /\ NoCorrectOption(Len(questions))
    /\ Cardinality(disabled[Len(questions)]) = Len(questions[Len(questions)].answers) - 1
    /\ Cardinality(disabled[Len(questions)]) >= 1

\* C30: an option that was submitted and found incorrect stays locked for
\* as long as its question is the current one. Before the question is
\* answered correctly its disabled radios are options found incorrect, so
\* every step that stays on the question keeps them disabled.
C30_IncorrectStaysLocked ==
    [][ (/\ screen = "questions"
         /\ ~questionAnswered
         /\ screen' = "questions"
         /\ currentQuestionIndex' = currentQuestionIndex)
        => disabled[Current] \subseteq disabled'[Current] ]_vars

====
